---- MODULE Spec2Model ----
(***************************************************************************)
(* The synchronisation and checkpointing engine of the zLink indexer:      *)
(* Main (process start-up), BlockChainSync.startSync and the calls it      *)
(* makes (initializeConnection, runSync, calculateBlockRange,              *)
(* processBlockRange, getBlocksInBulk), zLinkIndex.updateCheckPoint and    *)
(* zLinkIndex.index, and the checkpoint / leaf / unspent collections.      *)
(*                                                                         *)
(* One action is one resumption of the async code: from one await to the   *)
(* next.  A chain-RPC call (Web3Connector through                          *)
(* rateLimiter.executeWithRetry) and a store call are single awaits that   *)
(* either resolve or reject.                                               *)
(*                                                                         *)
(* The specifications share the variables.  Spec is the engine, with the   *)
(* shutdown handler, kills and restarts; LiveSpec is the engine when every *)
(* call succeeds, FairSpec the engine with failing calls and the shutdown  *)
(* signal, both under weak fairness of the engine's steps.  IndexSpec is   *)
(* zLinkIndex.index called on its own on batches of logs, against          *)
(* collections an earlier run has written to.  RetrySpec is Web3Connector  *)
(* calling the endpoint directly (isConnected) and through                 *)
(* RateLimiter.executeWithRetry (getBlockNumber, getETHLogs), one await    *)
(* per action.  BatchSpec is RateLimiter.executeBatch, QueueSpec is        *)
(* RateLimiter.execute with processQueue and waitForRateLimit              *)
(* (QueueFairSpec: under weak fairness of what the event loop runs),       *)
(* HttpSpec the handler of GET /utxos, DecodeSpec EtherDecoder.decode and  *)
(* configureCacheSettings with the cache.                                  *)
(***************************************************************************)
EXTENDS Integers, Sequences, FiniteSets, TLC

\* ------------------------------------------------------------------ bounds
MaxStart == 0       \* configured START_BLOCK ranges over base .. base + MaxStart
MaxDiff == 2        \* configured BLOCK_DIFFERENCE ranges over 0 .. MaxDiff
MaxBatch == 1       \* configured MAX_BLOCKS_PER_REQUEST ranges over 1 .. MaxBatch
MaxHeight == 3      \* the chain grows up to base + MaxHeight
MaxRestarts == 1    \* number of process restarts explored
MaxFaults == 1      \* number of RPC or store calls that fail on their own
MaxTx == 3          \* transactions whose logs a batch given to index may hold
MaxLogs == 2        \* logs in a batch given to index on its own
MaxIndexCalls == 2  \* calls of index on the same batch
MaxAttempts == 4    \* configured MAX_RETRIES ranges over 0 .. MaxAttempts
MaxCalls == 2       \* calls of Web3Connector methods in a row
MaxOps == 3         \* operations handed to executeBatch
MaxBatchRetries == 2 \* MAX_RETRIES under executeBatch ranges over 0 .. this
MaxStored == 2300   \* unspent records stored, and the largest query value
MaxWords == 2       \* 32-byte words of a payload given to decode
MaxDecodes == 2     \* calls of EtherDecoder.decode in a row
MaxSubmits == 6     \* operations submitted through execute
MaxCacheSetting == 2 \* configureCacheSettings sets a size of up to this

\* ------------------------------------------------------- program constants
ErrorLimit == 10                \* erroCount > 10 stops the engine
UnspentFromBlock == 9486466     \* unspents below this block are filtered out
WindowMs == 1000                \* the window of the request rate, in ms
MAX_LIMIT == 1100               \* GET /utxos: the largest page
DefaultStart == 0               \* GET /utxos: start when the query has none
DefaultEnd == 100               \* GET /utxos: end when the query has none
maxCacheSize == 10000           \* EtherDecoder: entries the cache may hold

\* The end-to-end scenario of the specification (section 8): position 100,
\* chain height 150, block difference 10, at most 1000 blocks per batch.
Scenario ==
  [start_block |-> 100, block_difference |-> 10, batchSize |-> 1000, height |-> 150]

\* Block numbers the small configurations start from: the origin, and just
\* below the block from which unspent records are kept.
Bases == {0, UnspentFromBlock - 2}

\* config.ts: the configuration loaded from the environment.
ConfigOf(s, d, m) == [start_block |-> s, block_difference |-> d, batchSize |-> m]

\* findOne() found no document.
NoCheckPoint == [lastIndexedBlock |-> -1, latestBlock |-> -1]
\* No block range (blockRange is only defined while runSync is running).
NoRange == [start |-> 0, end |-> -1]
\* No malformed log on the chain.
NoBlock == -1

VARIABLES
  \* the chain behind the RPC endpoint
  chainHead,          \* what eth_blockNumber answers
  chainLimit,         \* the height at which the explored chain stops growing
  badBlock,           \* the block whose recognised log is malformed, or NoBlock
  faults,             \* RPC and store calls that have failed so far
  \* the process
  config,             \* config (as loaded from the environment)
  pc,                 \* where the process is suspended
  restarts,           \* restarts so far
  \* BlockChainSync fields and startSync locals
  web3,               \* Web3Connector.web3 is non-null
  latestBlockNumber,
  startBlockNumber,
  logsData,
  isClosed,
  erroCount,          \* local of startSync
  blockRange,         \* local of runSync
  \* the database
  checkPoint,         \* collection indexer_check_point
  leafs,              \* collection leafs
  unspents,           \* collection unspents
  \* history of the run, for stating properties
  lastRange,          \* range of the last successful getETHLogs of this run
  prevRange,          \* range of the successful getETHLogs before that
  fetchedBlocks,      \* blocks covered by a successful getETHLogs, all runs
  iterStart,          \* startBlockNumber when the current iteration began
  iterRange,          \* range fetched by the current iteration, or NoRange
  lastIter,           \* "none", "ok" or "failed": how the last iteration ended
  failStreak,         \* iterations failed since the last one that succeeded
  bootCheckPoint,     \* what getCheckPoint answered when this run started
  lostRange,          \* range whose records were pending when the process
                      \* last ended, or NoRange
  isShuttingDown,     \* index.ts: gracefulShutdown has been entered
  \* zLinkIndex called on its own
  indexCalls,         \* calls of index on the same logs that have returned
  \* Web3Connector and RateLimiter.executeWithRetry
  retryConfig,        \* config.maxRetries, retryDelay, requestsPerSecond
  rpcSwitchCallback,  \* a switch callback is registered
  call,               \* the Web3Connector method being run, or "none"
  retryPc,            \* where that call is suspended
  attempt,            \* local of executeWithRetry
  rpcSwitchAttempted, \* local of executeWithRetry
  lastError,          \* local of executeWithRetry: "undefined" or "Error"
  invoked,            \* invocations of operation by the current call
  waits,              \* the delays the current call has awaited, in order
  outcome,            \* how the last call ended, "none" while it runs
  rpcStarts,          \* how long ago each request to the endpoint of the
                      \* last WindowMs ms was started, oldest first
  callsDone,          \* calls that have ended
  \* RateLimiter.executeBatch
  operations,         \* argument: what each operation resolves with
  batchSize,          \* argument
  batchPc,            \* where executeBatch is suspended
  batchIndex,         \* local i of executeBatch
  allResults,         \* local results of executeBatch
  opPc,               \* where executeWithRetry of each operation is suspended
  opAttempt,          \* local attempt of executeWithRetry of each operation
  \* RateLimiter.execute, processQueue and waitForRateLimit
  requestQueue,       \* the submitted operations not yet taken, oldest first
  isProcessing,
  processingPromise,  \* processingPromise is non-null
  requestCount,
  sinceReset,         \* Date.now() - resetTime, up to WindowMs
  sinceLast,          \* Date.now() - lastRequestTime, up to WindowMs
  queuePc,            \* where processQueue is suspended, or "none"
  timer,              \* ms the delay processQueue awaits has left to run
  request,            \* local of processQueue: the operation taken
  settled,            \* the submitted operations whose promise has settled
  finished,           \* the submitted operations whose run is over
  submitted,          \* operations submitted so far
  opStarts,           \* how long ago each operation of the last WindowMs ms
                      \* was started, oldest first
  \* GET /utxos
  query,              \* req.query: start, end, utxos_type
  response,           \* what was sent, and how many records were read
  stored,             \* unspents of the requested kind in the collection
  \* EtherDecoder
  cache,              \* the Map, in insertion order: key, result, expired
  cacheSettings,      \* maxCacheSize, as configured
  evicted,            \* entries the last call deleted for the size limit
  decodeArgs,         \* arguments of the last decode call
  decodeResult,       \* what the last decode call returned
  decodes             \* decode calls so far

chainVars == <<chainHead, chainLimit, badBlock, faults>>
procVars == <<config, restarts>>
engineVars == <<web3, latestBlockNumber, startBlockNumber, logsData, isClosed,
                erroCount, blockRange>>
storeVars == <<checkPoint, leafs, unspents>>
histVars == <<lastRange, prevRange, fetchedBlocks, iterStart, iterRange,
              lastIter, failStreak>>
bootVars == <<bootCheckPoint, lostRange, isShuttingDown>>
harnessVars == <<indexCalls>>
retryVars == <<retryConfig, rpcSwitchCallback, call, retryPc, attempt,
               rpcSwitchAttempted, lastError, invoked, waits, outcome,
               rpcStarts, callsDone>>
batchVars == <<operations, batchSize, batchPc, batchIndex, allResults, opPc,
               opAttempt>>
\* the parts of the program that are run on their own, beside the retry loop
queueVars == <<requestQueue, isProcessing, processingPromise, requestCount,
               sinceReset, sinceLast, queuePc, timer, request, settled,
               finished, submitted, opStarts>>
httpVars == <<query, response, stored>>
cacheVars == <<cache, cacheSettings, evicted, decodeArgs, decodeResult,
               decodes>>
extraVars == <<batchVars, queueVars, httpVars, cacheVars>>
otherVars == <<harnessVars, retryVars, extraVars>>
\* what no step of startSync changes
frameVars == <<procVars, bootVars, otherVars>>
\* what no step of Web3Connector and executeWithRetry changes
syncVars == <<chainVars, procVars, pc, engineVars, storeVars, histVars,
              bootVars, harnessVars, extraVars>>
\* what no step of executeBatch changes
nonBatchVars == <<chainVars, procVars, pc, engineVars, storeVars, histVars,
                  bootVars, harnessVars, retryVars, queueVars, httpVars,
                  cacheVars>>
\* what no step of execute and processQueue changes
nonQueueVars == <<chainVars, procVars, pc, engineVars, storeVars, histVars,
                  bootVars, harnessVars, retryVars, batchVars, httpVars,
                  cacheVars>>
\* what the handler of GET /utxos does not change
nonHttpVars == <<chainVars, procVars, pc, engineVars, storeVars, histVars,
                 bootVars, harnessVars, retryVars, batchVars, queueVars,
                 cacheVars>>
\* what EtherDecoder does not change
nonCacheVars == <<chainVars, procVars, pc, engineVars, storeVars, histVars,
                  bootVars, harnessVars, retryVars, batchVars, queueVars,
                  httpVars>>
vars == <<chainVars, procVars, pc, engineVars, storeVars, histVars, bootVars,
          otherVars>>

\* ------------------------------------------------------ the chain's content
\* The logs of block b, as eth_getLogs returns them.  Block numbers cycle
\* through: no log, a ShieldAssets log, a UTXOsUpdate log, a log of another
\* event; only the first six blocks of every 32 carry logs.  ok = FALSE
\* marks topics or data the decoder cannot decode; data stands for what the
\* topics and data of the log encode.
BlockLogs(b, bad) ==
  LET topic == CASE b % 4 = 1 -> "SHIELD_ASSETS"
                 [] b % 4 = 2 -> "UTXOS_UPDATE"
                 [] OTHER     -> "OTHER"
  IN IF b % 4 = 0 \/ b % 32 >= 6 THEN <<>>
     ELSE <<[blockNumber |-> b, transactionHash |-> b, logIndex |-> 0,
             topic |-> topic, ok |-> (b # bad), data |-> b]>>

\* web3.eth.getPastLogs({fromBlock, toBlock}): the logs of the blocks of the
\* range, in block order.
RECURSIVE getPastLogs(_, _, _)
getPastLogs(fromBlock, toBlock, bad) ==
  IF fromBlock > toBlock THEN <<>>
  ELSE BlockLogs(fromBlock, bad) \o getPastLogs(fromBlock + 1, toBlock, bad)

\* ------------------------------------------------------- BlockChainSync
Min(a, b) == IF a < b THEN a ELSE b

\* Mutant: the range runs up to the latest block.
calculateBlockRange_NoLag(startBlock, latest, cfg) ==
  LET endBlock == latest
      difference == endBlock - startBlock
      end == IF difference > cfg.batchSize
               THEN Min(startBlock + cfg.batchSize, endBlock)
               ELSE endBlock
  IN [start |-> startBlock, end |-> end]

\* Mutant: the range starts one block after the position.
calculateBlockRange_FromNext(startBlock, latest, cfg) ==
  LET endBlock == latest - cfg.block_difference
      difference == endBlock - startBlock
      end == IF difference > cfg.batchSize
               THEN Min(startBlock + cfg.batchSize, endBlock)
               ELSE endBlock
  IN [start |-> startBlock + 1, end |-> end]

\* Mutant: the range is not capped at MAX_BLOCKS_PER_REQUEST blocks.
calculateBlockRange_Uncapped(startBlock, latest, cfg) ==
  [start |-> startBlock, end |-> latest - cfg.block_difference]

\* calculateBlockRange: from the position up to latest - BLOCK_DIFFERENCE, at
\* most MAX_BLOCKS_PER_REQUEST blocks beyond the position.
calculateBlockRange(startBlock, latest, cfg) ==
  LET endBlock == latest - cfg.block_difference
      difference == endBlock - startBlock
      end == IF difference > cfg.batchSize
               THEN Min(startBlock + cfg.batchSize, endBlock)
               ELSE endBlock
  IN [start |-> startBlock, end |-> end]

\* Mutant: the fetched logs replace the buffer.
pushLogs_Replace(buffer, logs) == logs

\* getBlocksInBulk: this.logsData.push(...logs)
pushLogs(buffer, logs) == buffer \o logs

\* Mutant: the position advances although processBlockRange threw.
runSyncThrows_Advance(position, range) == range.end + 1

\* runSync when processBlockRange throws: the assignment of
\* this.startBlockNumber is not reached, the position stays.
runSyncThrows(position, range) == position

\* Mutant: the position is set to the end of the range.
NextStartBlock_NoAdvance(range) == range.end

\* runSync: this.startBlockNumber = blockRange.end + 1
NextStartBlock(range) == range.end + 1

\* Mutant: the stored checkpoint is not consulted.
ResumeBlock_IgnoreCheckPoint(cp, cfg) == cfg.start_block

\* Mutant: resume one block after the stored checkpoint.
ResumeBlock_SkipOne(cp, cfg) ==
  IF cp # NoCheckPoint THEN cp.lastIndexedBlock + 1 ELSE cfg.start_block

\* Mutant: resume at the block before the stored checkpoint.
ResumeBlock_Previous(cp, cfg) ==
  IF cp # NoCheckPoint THEN cp.lastIndexedBlock - 1 ELSE cfg.start_block

\* Main: resume from the stored checkpoint when there is one.
ResumeBlock(cp, cfg) ==
  IF cp # NoCheckPoint THEN cp.lastIndexedBlock ELSE cfg.start_block

\* Mutant: the records are inserted before the checkpoint is written.
IterationSteps_IndexFirst == <<"index", "updateCheckPoint">>

\* startSync: what one iteration awaits, in order, once runSync has returned.
IterationSteps == <<"updateCheckPoint", "index">>

StepAfter(step) ==
  LET i == CHOOSE j \in 1..Len(IterationSteps) : IterationSteps[j] = step
  IN IF i < Len(IterationSteps) THEN IterationSteps[i + 1] ELSE "iterationDone"

\* ------------------------------------------------------------- zLinkIndex
\* Mutant: processLog has no default case.
Recognised_Any(log) == TRUE

\* processLog: the cases of switch (log.topics[0])
Recognised(log) == log.topic \in {"SHIELD_ASSETS", "UTXOS_UPDATE"}

\* processLog throws for a recognised log that does not decode.
DecodeThrows(logs) ==
  \E i \in 1..Len(logs) : Recognised(logs[i]) /\ ~logs[i].ok

\* decodeShieldAssetsEvent / decodeUTXOsUpdateEvent: what a log decodes to.
DecodeLog(log) ==
  IF log.topic = "UTXOS_UPDATE"
    THEN [blockNumber |-> log.blockNumber, index |-> log.logIndex,
          txid |-> log.transactionHash, type |-> log.topic,
          encryptedUTXO |-> log.data,
          leaf |-> [commitment |-> log.data, treeIndex |-> log.data]]
    ELSE [blockNumber |-> log.blockNumber, index |-> log.logIndex,
          txid |-> log.transactionHash, type |-> log.topic,
          utxos |-> log.data,
          leaf |-> [commitment |-> log.data, treeIndex |-> log.data]]

\* index: results.filter(result => result !== undefined)
RECURSIVE DecodedResults(_)
DecodedResults(logs) ==
  IF logs = <<>> THEN <<>>
  ELSE (IF Recognised(Head(logs)) THEN <<DecodeLog(Head(logs))>> ELSE <<>>)
       \o DecodedResults(Tail(logs))

\* IndexOnDB: one leaf per result
RECURSIVE LeafDocs(_)
LeafDocs(results) ==
  IF results = <<>> THEN <<>>
  ELSE <<[blockNumber |-> Head(results).blockNumber,
          txid |-> Head(results).txid,
          index |-> Head(results).index,
          commitment |-> Head(results).leaf.commitment,
          treeIndex |-> Head(results).leaf.treeIndex]>>
       \o LeafDocs(Tail(results))

\* Mutant: the document of a UTXOsUpdate result is not flagged encrypted.
UnspentDoc_NeverEncrypted(result) ==
  IF result.type = "SHIELD_ASSETS"
    THEN <<[UTXOs |-> result.utxos, isEncrypted |-> FALSE,
            blockNumber |-> result.blockNumber, txid |-> result.txid]>>
    ELSE IF result.type = "UTXOS_UPDATE"
      THEN <<[encryptedUTXO |-> result.encryptedUTXO, isEncrypted |-> FALSE,
              blockNumber |-> result.blockNumber, txid |-> result.txid]>>
      ELSE <<>>

\* IndexOnDB: the unspent document of one result.
UnspentDoc(result) ==
  IF result.type = "SHIELD_ASSETS"
    THEN <<[UTXOs |-> result.utxos, isEncrypted |-> FALSE,
            blockNumber |-> result.blockNumber, txid |-> result.txid]>>
    ELSE IF result.type = "UTXOS_UPDATE"
      THEN <<[encryptedUTXO |-> result.encryptedUTXO, isEncrypted |-> TRUE,
              blockNumber |-> result.blockNumber, txid |-> result.txid]>>
      ELSE <<>>

\* IndexOnDB: one unspent per result
RECURSIVE UnspentDocs(_)
UnspentDocs(results) ==
  IF results = <<>> THEN <<>>
  ELSE UnspentDoc(Head(results)) \o UnspentDocs(Tail(results))

\* IndexOnDB: Unspents.filter(d => d.blockNumber >= 9486466)
UnspentsToInsert(docs) ==
  SelectSeq(docs, LAMBDA d : d.blockNumber >= UnspentFromBlock)

\* ------------------------------------------------------------ collections
\* Mutant: the unique index of the leaves lacks the log index.
LeafKey_TxBlock(d) == <<d.txid, d.blockNumber>>

\* createLeafIndexes: unique index {txid: 1, index: 1, blockNumber: 1}
LeafKey(d) == <<d.txid, d.index, d.blockNumber>>
\* createUnspentIndexes: unique index {txid: 1, blockNumber: 1}
UnspentKey(d) == <<d.txid, d.blockNumber>>

\* insertMany(docs, {ordered: false}) under the unique index
\* txid_index_block_unique: a document whose key is stored is skipped.
RECURSIVE insertLeaf(_, _)
insertLeaf(coll, docs) ==
  IF docs = <<>> THEN coll
  ELSE insertLeaf(IF \E e \in coll : LeafKey(e) = LeafKey(Head(docs))
                    THEN coll ELSE coll \cup {Head(docs)},
                  Tail(docs))

\* insertMany(docs, {ordered: false}) under the unique index txid_block_unique.
RECURSIVE insertUTXOs(_, _)
insertUTXOs(coll, docs) ==
  IF docs = <<>> THEN coll
  ELSE insertUTXOs(IF \E e \in coll : UnspentKey(e) = UnspentKey(Head(docs))
                     THEN coll ELSE coll \cup {Head(docs)},
                   Tail(docs))

\* What insertMany raises: a bulk write error (code 11000, writeErrors) when
\* a document of the batch was refused for its key, nothing otherwise.
DriverError(before, docs, after) ==
  IF Cardinality(after) < Cardinality(before) + Len(docs) THEN "E11000"
  ELSE "none"

\* Mutant: the catch block rethrows every error.
InsertReturns_Rethrow(error) == error = "none"

\* insertLeaf, insertUTXOs: return true, also from the catch block when
\* error.code === 11000 || error.writeErrors; any other error is rethrown.
InsertReturns(error) == error \in {"none", "E11000"}

\* The documents of docs at the positions in S, in order.
RECURSIVE Pick(_, _)
Pick(docs, S) ==
  IF docs = <<>> THEN <<>>
  ELSE (IF Len(docs) \in S THEN Pick(SubSeq(docs, 1, Len(docs) - 1), S)
                                  \o <<docs[Len(docs)]>>
        ELSE Pick(SubSeq(docs, 1, Len(docs) - 1), S))

\* ------------------------------------------------------------------- Init
\* config.ts: the defaults of the rate limiter's settings.
Defaults == [requestsPerSecond |-> 5, maxRetries |-> 3, retryDelay |-> 1000]

\* The process has loaded its configuration and is about to run Main.
FreshProcess ==
  /\ faults = 0
  /\ pc = "Main"
  /\ restarts = 0
  /\ web3 = FALSE
  /\ latestBlockNumber = 0
  /\ startBlockNumber = 0
  /\ logsData = <<>>
  /\ isClosed = FALSE
  /\ erroCount = 0
  /\ blockRange = NoRange
  /\ lastRange = NoRange
  /\ prevRange = NoRange
  /\ fetchedBlocks = {}
  /\ iterStart = 0
  /\ iterRange = NoRange
  /\ lastIter = "none"
  /\ failStreak = 0
  /\ bootCheckPoint = NoCheckPoint
  /\ lostRange = NoRange
  /\ isShuttingDown = FALSE

\* No Web3Connector method has been called yet.
RetryAtRest ==
  /\ retryConfig = Defaults
  /\ rpcSwitchCallback = FALSE
  /\ call = "none"
  /\ retryPc = "idle"
  /\ attempt = 0
  /\ rpcSwitchAttempted = FALSE
  /\ lastError = "undefined"
  /\ invoked = 0
  /\ waits = <<>>
  /\ outcome = "none"
  /\ rpcStarts = <<>>
  /\ callsDone = 0

\* executeBatch has not been called.
BatchAtRest ==
  /\ operations = <<>>
  /\ batchSize = 1
  /\ batchPc = "idle"
  /\ batchIndex = 0
  /\ allResults = <<>>
  /\ opPc = <<>>
  /\ opAttempt = <<>>

\* new RateLimiter(): the fields as initialised, nothing submitted.
QueueAtRest ==
  /\ requestQueue = <<>>
  /\ isProcessing = FALSE
  /\ processingPromise = FALSE
  /\ requestCount = 0
  /\ sinceReset = 0
  /\ sinceLast = WindowMs
  /\ queuePc = "none"
  /\ timer = 0
  /\ request = 0
  /\ settled = {}
  /\ finished = {}
  /\ submitted = 0
  /\ opStarts = <<>>

\* A query value that is missing or empty.
NoValue == -1
\* No request has been received.
NoResponse == [status |-> 0, message |-> "", read |-> 0]
HttpAtRest ==
  /\ query = [start |-> NoValue, end |-> NoValue, utxos_type |-> ""]
  /\ response = NoResponse
  /\ stored = 0

\* EtherDecoder as loaded: an empty cache, no call yet.
NoArgs == [hex |-> 0, dataType |-> <<>>, isArray |-> FALSE, options |-> ""]
NoResult == [success |-> FALSE, error |-> "none"]
CacheAtRest ==
  /\ cache = <<>>
  /\ cacheSettings = [maxCacheSize |-> maxCacheSize]
  /\ evicted = 0
  /\ decodeArgs = NoArgs
  /\ decodeResult = NoResult
  /\ decodes = 0

\* Nothing that is run on its own has been called.
ExtrasAtRest == BatchAtRest /\ QueueAtRest /\ HttpAtRest /\ CacheAtRest

\* A fresh deployment: empty database, the process has loaded its
\* configuration and is about to run Main.
Init ==
  /\ \/ \E b \in Bases, s \in 0..MaxStart, d \in 0..MaxDiff, m \in 1..MaxBatch :
          /\ config = ConfigOf(b + s, d, m)
          /\ chainHead = b
          /\ chainLimit = b + MaxHeight
          /\ badBlock \in {NoBlock, b + 1}
     \/ /\ config = ConfigOf(Scenario.start_block, Scenario.block_difference,
                             Scenario.batchSize)
        /\ chainHead = Scenario.height - 1
        /\ chainLimit = Scenario.height
        /\ badBlock = NoBlock
  /\ FreshProcess
  /\ checkPoint = NoCheckPoint
  /\ leafs = {}
  /\ unspents = {}
  /\ indexCalls = 0
  /\ RetryAtRest
  /\ ExtrasAtRest

\* ---------------------------------------------------------------- process
\* An RPC or store call fails (the endpoint or the database is unreachable).
Fault ==
  /\ faults < MaxFaults
  /\ faults' = faults + 1
  /\ UNCHANGED <<chainHead, chainLimit, badBlock>>

\* Main: load the checkpoint, construct BlockChainSync, call startSync.
Main ==
  /\ pc = "Main"
  /\ startBlockNumber' = ResumeBlock(checkPoint, config)
  /\ bootCheckPoint' = checkPoint
  /\ pc' = "outer"
  /\ UNCHANGED <<chainVars, procVars, lostRange, isShuttingDown, otherVars,
                 web3, latestBlockNumber, logsData, isClosed, erroCount,
                 blockRange, storeVars, histVars>>

\* Main: getCheckPoint throws, process.exit(1).
MainFail ==
  /\ pc = "Main"
  /\ Fault
  /\ pc' = "dead"
  /\ UNCHANGED <<frameVars, engineVars, storeVars, histVars>>

\* The process ends: the records of a fetched batch that were still to be
\* inserted are lost.
ProcessEnds ==
  /\ pc' = "dead"
  /\ lostRange' = IF pc \in {"index", "insertLeaf", "insertUTXOs"}
                    THEN iterRange ELSE NoRange
  /\ UNCHANGED <<chainVars, procVars, bootCheckPoint, isShuttingDown,
                 otherVars, engineVars, storeVars, histVars>>

\* The process is killed at an arbitrary point (once gracefulShutdown runs,
\* its own exit ends the process).
Crash ==
  /\ pc \notin {"Main", "dead"}
  /\ ~isShuttingDown
  /\ ProcessEnds

\* The process is started again: memory starts fresh, the database stays.
Restart ==
  /\ pc = "dead"
  /\ restarts < MaxRestarts
  /\ restarts' = restarts + 1
  /\ pc' = "Main"
  /\ web3' = FALSE
  /\ latestBlockNumber' = 0
  /\ startBlockNumber' = 0
  /\ logsData' = <<>>
  /\ isClosed' = FALSE
  /\ erroCount' = 0
  /\ blockRange' = NoRange
  /\ lastRange' = NoRange
  /\ prevRange' = NoRange
  /\ iterStart' = 0
  /\ iterRange' = NoRange
  /\ lastIter' = "none"
  /\ failStreak' = 0
  /\ bootCheckPoint' = NoCheckPoint
  /\ isShuttingDown' = FALSE
  /\ UNCHANGED <<chainVars, config, lostRange, otherVars, storeVars,
                 fetchedBlocks>>

\* stopSync: closeConnection, isClosed = true.
stopSync ==
  /\ web3' = FALSE
  /\ isClosed' = TRUE

\* SIGTERM or SIGINT: gracefulShutdown runs up to its await.  With an engine
\* it calls stopSync and starts the 5000 ms timer; without one it exits.
gracefulShutdown ==
  /\ pc # "dead"
  /\ ~isShuttingDown
  /\ isShuttingDown' = TRUE
  /\ IF pc = "Main"
       THEN pc' = "dead" /\ UNCHANGED <<web3, isClosed>>
       ELSE pc' = pc /\ stopSync
  /\ UNCHANGED <<chainVars, procVars, bootCheckPoint, lostRange, otherVars,
                 latestBlockNumber, startBlockNumber, logsData, erroCount,
                 blockRange, storeVars, histVars>>

\* gracefulShutdown after its await: the timer fired, process.exit(0),
\* wherever startSync is suspended.
gracefulShutdownExit ==
  /\ isShuttingDown
  /\ pc # "dead"
  /\ ProcessEnds

\* A new block is produced.
ChainGrow ==
  /\ chainHead < chainLimit
  /\ chainHead' = chainHead + 1
  /\ UNCHANGED <<chainLimit, badBlock, faults, frameVars, pc, engineVars,
                 storeVars, histVars>>

\* --------------------------------------------------------------- startSync
\* The catch block of the inner loop.
Catch ==
  /\ erroCount' = erroCount + 1
  /\ IF erroCount + 1 > ErrorLimit
       THEN isClosed' = TRUE /\ pc' = "outer"
       ELSE isClosed' = isClosed /\ pc' = "errorBackoff"
  /\ lastIter' = "failed"
  /\ failStreak' = failStreak + 1

\* while (!this.isClosed): enter the body and await initializeConnection.
OuterEnter ==
  /\ pc = "outer"
  /\ ~isClosed
  /\ pc' = "initializeConnection"
  /\ UNCHANGED <<chainVars, frameVars, engineVars, storeVars, histVars>>

\* while (!this.isClosed) is false: startSync returns.
OuterExit ==
  /\ pc = "outer"
  /\ isClosed
  /\ pc' = "stopped"
  /\ UNCHANGED <<chainVars, frameVars, engineVars, storeVars, histVars>>

\* initializeConnection resolves: connected (createConnection if need be),
\* getLatestBlockNumber answered the chain head.
initializeConnectionOk ==
  /\ pc = "initializeConnection"
  /\ web3' = TRUE
  /\ latestBlockNumber' =
       IF startBlockNumber # 0 /\ chainHead <= startBlockNumber
         THEN latestBlockNumber
         ELSE chainHead
  /\ pc' = "inner"
  /\ UNCHANGED <<chainVars, frameVars, startBlockNumber, logsData, isClosed,
                 erroCount, blockRange, storeVars, histVars>>

\* initializeConnection rejects (getLatestBlockNumber failed): the outer
\* catch, which sleeps SYNC_CYCLE_DELAY_MS * 3.  createConnection has set web3
\* whether or not its own getBlockNumber succeeded.
initializeConnectionRejects ==
  /\ pc = "initializeConnection"
  /\ web3' = TRUE
  /\ pc' = "fatalBackoff"
  /\ UNCHANGED <<frameVars, latestBlockNumber, startBlockNumber,
                 logsData, isClosed, erroCount, blockRange, storeVars, histVars>>

initializeConnectionFail == Fault /\ initializeConnectionRejects

\* The inner while condition is false: leave the inner loop, and sleep
\* SYNC_CYCLE_DELAY_MS unless closed.
InnerExit ==
  /\ pc = "inner"
  /\ ~(~isClosed /\ startBlockNumber < latestBlockNumber)
  /\ pc' = IF isClosed THEN "outer" ELSE "idleWait"
  /\ UNCHANGED <<chainVars, frameVars, engineVars, storeVars, histVars>>

\* Mutant: the inner loop does not test the stop flag.
InnerCond_IgnoreClosed == pc = "inner" /\ startBlockNumber < latestBlockNumber

\* An iteration of the inner loop begins: runSync computes the range.
InnerCond == pc = "inner" /\ ~isClosed /\ startBlockNumber < latestBlockNumber

\* runSync: blockRange.start > blockRange.end, "No new blocks to process";
\* runSync returns and startSync goes on to its next await.
runSyncNoNewBlocks ==
  /\ InnerCond
  /\ LET r == calculateBlockRange(startBlockNumber, latestBlockNumber, config)
     IN r.start > r.end
  /\ pc' = IterationSteps[1]
  /\ iterStart' = startBlockNumber
  /\ iterRange' = NoRange
  /\ UNCHANGED <<chainVars, frameVars, engineVars, storeVars, lastRange,
                 prevRange, fetchedBlocks, lastIter, failStreak>>

\* runSync -> processBlockRange -> getBlocksInBulk -> getETHLogs: the RPC call
\* is awaited, or getETHLogs throws "Web3 connection not established".
runSyncFetch ==
  /\ InnerCond
  /\ LET r == calculateBlockRange(startBlockNumber, latestBlockNumber, config)
     IN /\ r.start <= r.end
        /\ IF web3
             THEN /\ blockRange' = r
                  /\ pc' = "getETHLogs"
                  /\ UNCHANGED <<isClosed, erroCount, lastIter, failStreak>>
             ELSE /\ blockRange' = blockRange
                  /\ Catch
  /\ iterStart' = startBlockNumber
  /\ iterRange' = NoRange
  /\ UNCHANGED <<chainVars, frameVars, web3, latestBlockNumber, startBlockNumber,
                 logsData, storeVars, lastRange, prevRange, fetchedBlocks>>

\* getETHLogs resolves: the logs are buffered and the position advances.
getETHLogsOk ==
  /\ pc = "getETHLogs"
  /\ logsData' = pushLogs(logsData,
                          getPastLogs(blockRange.start, blockRange.end, badBlock))
  /\ startBlockNumber' = NextStartBlock(blockRange)
  /\ blockRange' = NoRange
  /\ pc' = IterationSteps[1]
  /\ prevRange' = lastRange
  /\ lastRange' = blockRange
  /\ iterRange' = blockRange
  /\ fetchedBlocks' = fetchedBlocks \cup (blockRange.start .. blockRange.end)
  /\ UNCHANGED <<chainVars, frameVars, web3, latestBlockNumber, isClosed,
                 erroCount, storeVars, iterStart, lastIter, failStreak>>

\* getETHLogs rejects (retries exhausted, or the connection was closed).
getETHLogsFail ==
  /\ pc = "getETHLogs"
  /\ IF web3 THEN Fault ELSE UNCHANGED chainVars
  /\ startBlockNumber' = runSyncThrows(startBlockNumber, blockRange)
  /\ blockRange' = NoRange
  /\ Catch
  /\ UNCHANGED <<frameVars, web3, latestBlockNumber, logsData, storeVars,
                 lastRange, prevRange, fetchedBlocks, iterStart, iterRange>>

\* updateCheckPoint resolves: the singleton is inserted or updated.
updateCheckPointOk ==
  /\ pc = "updateCheckPoint"
  /\ checkPoint' = [lastIndexedBlock |-> startBlockNumber,
                    latestBlock |-> latestBlockNumber]
  /\ pc' = StepAfter("updateCheckPoint")
  /\ UNCHANGED <<chainVars, frameVars, engineVars, leafs, unspents, histVars>>

\* updateCheckPoint rejects; the write may or may not have been applied.
updateCheckPointFail ==
  /\ pc = "updateCheckPoint"
  /\ Fault
  /\ checkPoint' \in {checkPoint,
                      [lastIndexedBlock |-> startBlockNumber,
                       latestBlock |-> latestBlockNumber]}
  /\ Catch
  /\ UNCHANGED <<frameVars, web3, latestBlockNumber, startBlockNumber,
                 logsData, blockRange, leafs, unspents, lastRange, prevRange,
                 fetchedBlocks, iterStart, iterRange>>

\* index: a log fails to decode, Promise.all rejects.
indexDecodeFail ==
  /\ pc = "index"
  /\ DecodeThrows(logsData)
  /\ Catch
  /\ UNCHANGED <<chainVars, frameVars, web3, latestBlockNumber, startBlockNumber,
                 logsData, blockRange, storeVars, lastRange, prevRange,
                 fetchedBlocks, iterStart, iterRange>>

\* index: nothing to insert (no logs, or none recognised).
indexNothing ==
  /\ pc = "index"
  /\ ~DecodeThrows(logsData)
  /\ DecodedResults(logsData) = <<>>
  /\ pc' = StepAfter("index")
  /\ UNCHANGED <<chainVars, frameVars, engineVars, storeVars, histVars>>

\* index -> IndexOnDB: insertLeaf is awaited.
indexInsert ==
  /\ pc = "index"
  /\ ~DecodeThrows(logsData)
  /\ DecodedResults(logsData) # <<>>
  /\ pc' = "insertLeaf"
  /\ UNCHANGED <<chainVars, frameVars, engineVars, storeVars, histVars>>

\* insertMany of the leaves completes: insertLeaf returns true and
\* insertUTXOs is awaited next, or insertLeaf rethrows.
insertLeafOk ==
  /\ pc = "insertLeaf"
  /\ LET docs == LeafDocs(DecodedResults(logsData))
     IN /\ leafs' = insertLeaf(leafs, docs)
        /\ IF InsertReturns(DriverError(leafs, docs, insertLeaf(leafs, docs)))
             THEN /\ pc' = "insertUTXOs"
                  /\ UNCHANGED <<isClosed, erroCount, lastIter, failStreak>>
             ELSE Catch
  /\ UNCHANGED <<chainVars, frameVars, web3, latestBlockNumber,
                 startBlockNumber, logsData, blockRange, checkPoint, unspents,
                 lastRange, prevRange, fetchedBlocks, iterStart, iterRange>>

\* insertLeaf rejects; any part of the batch may have been written.
insertLeafFail ==
  /\ pc = "insertLeaf"
  /\ Fault
  /\ \E S \in SUBSET (1..Len(LeafDocs(DecodedResults(logsData)))) :
        leafs' = insertLeaf(leafs, Pick(LeafDocs(DecodedResults(logsData)), S))
  /\ Catch
  /\ UNCHANGED <<frameVars, web3, latestBlockNumber, startBlockNumber,
                 logsData, blockRange, checkPoint, unspents, lastRange,
                 prevRange, fetchedBlocks, iterStart, iterRange>>

\* insertMany of the unspents completes: insertUTXOs returns true and index
\* returns, or insertUTXOs rethrows.
insertUTXOsOk ==
  /\ pc = "insertUTXOs"
  /\ LET docs == UnspentsToInsert(UnspentDocs(DecodedResults(logsData)))
     IN /\ unspents' = insertUTXOs(unspents, docs)
        /\ IF InsertReturns(DriverError(unspents, docs,
                                        insertUTXOs(unspents, docs)))
             THEN /\ pc' = StepAfter("index")
                  /\ UNCHANGED <<isClosed, erroCount, lastIter, failStreak>>
             ELSE Catch
  /\ UNCHANGED <<chainVars, frameVars, web3, latestBlockNumber,
                 startBlockNumber, logsData, blockRange, checkPoint, leafs,
                 lastRange, prevRange, fetchedBlocks, iterStart, iterRange>>

\* insertUTXOs rejects; any part of the batch may have been written.
insertUTXOsFail ==
  /\ pc = "insertUTXOs"
  /\ Fault
  /\ LET docs == UnspentsToInsert(UnspentDocs(DecodedResults(logsData)))
     IN \E S \in SUBSET (1..Len(docs)) :
           unspents' = insertUTXOs(unspents, Pick(docs, S))
  /\ Catch
  /\ UNCHANGED <<frameVars, web3, latestBlockNumber, startBlockNumber,
                 logsData, blockRange, checkPoint, leafs, lastRange, prevRange,
                 fetchedBlocks, iterStart, iterRange>>

\* The iteration ran through: this.logsData.length = 0, next iteration.
IterationDone ==
  /\ pc = "iterationDone"
  /\ logsData' = <<>>
  /\ pc' = "inner"
  /\ lastIter' = "ok"
  /\ failStreak' = 0
  /\ UNCHANGED <<chainVars, frameVars, web3, latestBlockNumber, startBlockNumber,
                 isClosed, erroCount, blockRange, storeVars, lastRange,
                 prevRange, fetchedBlocks, iterStart, iterRange>>

\* sleep(SYNC_CYCLE_DELAY_MS * 2) is over: continue.
ErrorBackoffDone ==
  /\ pc = "errorBackoff"
  /\ pc' = "inner"
  /\ UNCHANGED <<chainVars, frameVars, engineVars, storeVars, histVars>>

\* sleep(SYNC_CYCLE_DELAY_MS) is over.
IdleWaitDone ==
  /\ pc = "idleWait"
  /\ pc' = "outer"
  /\ UNCHANGED <<chainVars, frameVars, engineVars, storeVars, histVars>>

\* sleep(SYNC_CYCLE_DELAY_MS * 3) is over.
FatalBackoffDone ==
  /\ pc = "fatalBackoff"
  /\ pc' = "outer"
  /\ UNCHANGED <<chainVars, frameVars, engineVars, storeVars, histVars>>

\* ------------------------------------------------------------ specification
Next ==
  \/ Main \/ MainFail \/ Crash \/ Restart \/ ChainGrow
  \/ gracefulShutdown \/ gracefulShutdownExit
  \/ OuterEnter \/ OuterExit
  \/ initializeConnectionOk \/ initializeConnectionFail
  \/ InnerExit
  \/ runSyncNoNewBlocks \/ runSyncFetch
  \/ getETHLogsOk \/ getETHLogsFail
  \/ updateCheckPointOk \/ updateCheckPointFail
  \/ indexDecodeFail \/ indexNothing \/ indexInsert
  \/ insertLeafOk \/ insertLeafFail
  \/ insertUTXOsOk \/ insertUTXOsFail
  \/ IterationDone
  \/ ErrorBackoffDone \/ IdleWaitDone \/ FatalBackoffDone

Spec == Init /\ [][Next]_vars

\* Every call succeeds, nobody stops or kills the process, no log is
\* malformed, and the chain keeps growing: the setting of forward progress.
LiveInit == Init /\ badBlock = NoBlock

EngineStep ==
  \/ Main
  \/ OuterEnter
  \/ initializeConnectionOk
  \/ InnerExit
  \/ runSyncNoNewBlocks \/ runSyncFetch
  \/ getETHLogsOk
  \/ updateCheckPointOk
  \/ indexNothing \/ indexInsert
  \/ insertLeafOk
  \/ insertUTXOsOk
  \/ IterationDone
  \/ IdleWaitDone

LiveNext == EngineStep \/ ChainGrow

\* The event loop runs every continuation that is ready, every sleep ends,
\* and blocks keep being produced.
LiveSpec == LiveInit /\ [][LiveNext]_vars /\ WF_vars(EngineStep) /\ WF_vars(ChainGrow)

\* The endpoint stays unreachable: initializeConnection rejects, however
\* often it is called.
initializeConnectionDown == initializeConnectionRejects /\ UNCHANGED chainVars

\* An awaited call rejects.
FailStep ==
  \/ initializeConnectionDown
  \/ getETHLogsFail
  \/ updateCheckPointFail
  \/ indexDecodeFail
  \/ insertLeafFail
  \/ insertUTXOsFail

\* A sleep of the catch blocks is over, or startSync returns.
WakeStep == ErrorBackoffDone \/ FatalBackoffDone \/ OuterExit

FairNext == EngineStep \/ FailStep \/ WakeStep \/ gracefulShutdown \/ ChainGrow

\* The engine with calls that resolve or reject and with the shutdown
\* signal (the exit of the process left out): every pending call and every
\* sleep eventually completes.
FairSpec == Init /\ [][FairNext]_vars /\ WF_vars(EngineStep \/ FailStep \/ WakeStep)

\* -------------------------------------------------- zLinkIndex on its own
\* The indexes of the logs of one transaction.
LogIndexes == {0, 1}

\* A log of transaction t at index i.  Transaction t lies in block
\* UnspentFromBlock - 2 + t: the first below the block from which unspents
\* are kept, the others from it on.
LogAt(t, i, topic, ok) ==
  [blockNumber |-> UnspentFromBlock - 2 + t, transactionHash |-> t,
   logIndex |-> i, topic |-> topic, ok |-> ok, data |-> 10 * t + i]

IndexLogs ==
  {LogAt(t, i, topic, TRUE) :
     t \in 1..MaxTx, i \in LogIndexes,
     topic \in {"SHIELD_ASSETS", "UTXOS_UPDATE", "OTHER"}}
  \cup {LogAt(t, i, topic, FALSE) :
          t \in 1..MaxTx, i \in LogIndexes,
          topic \in {"SHIELD_ASSETS", "UTXOS_UPDATE"}}

\* What getPastLogs can answer: logs in chain order, one per position.
Batches ==
  {logs \in UNION {[1..n -> IndexLogs] : n \in 0..MaxLogs} :
     \A i, j \in 1..Len(logs) :
        i < j => \/ logs[i].transactionHash < logs[j].transactionHash
                 \/ /\ logs[i].transactionHash = logs[j].transactionHash
                    /\ logs[i].logIndex < logs[j].logIndex}

\* Records an earlier run (of this or of another indexer) has stored under
\* the keys of transaction 2.
StoredLeafs ==
  {[blockNumber |-> UnspentFromBlock, txid |-> 2, index |-> 0,
    commitment |-> 0, treeIndex |-> 0]}
StoredUnspents ==
  {[UTXOs |-> 0, isEncrypted |-> FALSE, blockNumber |-> UnspentFromBlock,
    txid |-> 2]}

\* index is about to be called on a batch, with the collections as an
\* earlier run left them.
IndexInit ==
  /\ logsData \in Batches
  /\ leafs \in SUBSET StoredLeafs
  /\ unspents \in SUBSET StoredUnspents
  /\ pc = "index"
  /\ indexCalls = 0
  /\ config = ConfigOf(UnspentFromBlock - 1, 0, MaxTx)
  /\ chainHead = UnspentFromBlock - 2 + MaxTx
  /\ chainLimit = UnspentFromBlock - 2 + MaxTx
  /\ badBlock = NoBlock
  /\ faults = 0
  /\ restarts = 0
  /\ web3 = TRUE
  /\ latestBlockNumber = UnspentFromBlock - 2 + MaxTx
  /\ startBlockNumber = UnspentFromBlock - 1 + MaxTx
  /\ isClosed = FALSE
  /\ erroCount = 0
  /\ blockRange = NoRange
  /\ checkPoint = [lastIndexedBlock |-> UnspentFromBlock - 1 + MaxTx,
                   latestBlock |-> UnspentFromBlock - 2 + MaxTx]
  /\ lastRange = NoRange
  /\ prevRange = NoRange
  /\ fetchedBlocks = {}
  /\ iterStart = UnspentFromBlock - 1
  /\ iterRange = NoRange
  /\ lastIter = "none"
  /\ failStreak = 0
  /\ bootCheckPoint = NoCheckPoint
  /\ lostRange = NoRange
  /\ isShuttingDown = FALSE
  /\ RetryAtRest
  /\ ExtrasAtRest

\* index has returned; it is called again on the same logs.
IndexAgain ==
  /\ pc = StepAfter("index")
  /\ indexCalls + 1 < MaxIndexCalls
  /\ indexCalls' = indexCalls + 1
  /\ pc' = "index"
  /\ UNCHANGED <<chainVars, procVars, bootVars, retryVars, extraVars,
                 engineVars, storeVars, histVars>>

IndexNext ==
  \/ indexDecodeFail \/ indexNothing \/ indexInsert
  \/ insertLeafOk
  \/ insertUTXOsOk
  \/ IndexAgain

IndexSpec == IndexInit /\ [][IndexNext]_vars

\* ------------------------------- Web3Connector and executeWithRetry
\* What the retry delay is set to.
RetryDelays == {250, Defaults.retryDelay}
\* What the request rate is set to.
RequestRates == {1, Defaults.requestsPerSecond}
\* How long the endpoint takes to answer a request, in ms.
Latencies == {0, 250}

\* The requests of the last WindowMs ms, once d more ms have passed.
Elapse(starts, d) ==
  SelectSeq([i \in 1..Len(starts) |-> starts[i] + d], LAMBDA a : a < WindowMs)

\* Mutant: the exponent is the attempt number.
BackoffDelay_FromSecond(cfg, n) == cfg.retryDelay * 2^n

\* executeWithRetry: config.retryDelay * Math.pow(2, attempt - 1)
BackoffDelay(cfg, n) == cfg.retryDelay * 2^(n - 1)

\* executeWithRetry after the loop: lastError.message is read (a TypeError
\* when lastError is undefined or null), then the max-retry error is thrown.
AfterLoop(error) == IF error = "undefined" THEN "TypeError" ELSE "maxRetryError"

\* The engine is not running; a Web3Connector is connected and any
\* settings of the rate limiter are configured.
RetryInit ==
  /\ config = ConfigOf(Scenario.start_block, Scenario.block_difference,
                       Scenario.batchSize)
  /\ chainHead = Scenario.height
  /\ chainLimit = Scenario.height
  /\ badBlock = NoBlock
  /\ FreshProcess
  /\ checkPoint = NoCheckPoint
  /\ leafs = {}
  /\ unspents = {}
  /\ indexCalls = 0
  /\ retryConfig \in [requestsPerSecond : RequestRates,
                      maxRetries : 0..MaxAttempts,
                      retryDelay : RetryDelays]
  /\ rpcSwitchCallback \in BOOLEAN
  /\ call = "none"
  /\ retryPc = "idle"
  /\ attempt = 0
  /\ rpcSwitchAttempted = FALSE
  /\ lastError = "undefined"
  /\ invoked = 0
  /\ waits = <<>>
  /\ outcome = "none"
  /\ rpcStarts = <<>>
  /\ callsDone = 0
  /\ ExtrasAtRest

\* isConnected: await this.web3.eth.getBlockNumber()
isConnected ==
  /\ retryPc = "idle"
  /\ callsDone < MaxCalls
  /\ call' = "isConnected"
  /\ retryPc' = "probe"
  /\ outcome' = "none"
  /\ invoked' = 0
  /\ waits' = <<>>
  /\ rpcStarts' = Append(rpcStarts, 0)
  /\ UNCHANGED <<syncVars, retryConfig, rpcSwitchCallback, attempt,
                 rpcSwitchAttempted, lastError, callsDone>>

\* isConnected: the request is answered (true) or fails (false).
isConnectedDone ==
  /\ retryPc = "probe"
  /\ \E d \in Latencies : rpcStarts' = Elapse(rpcStarts, d)
  /\ outcome' \in {"true", "false"}
  /\ retryPc' = "idle"
  /\ callsDone' = callsDone + 1
  /\ UNCHANGED <<syncVars, retryConfig, rpcSwitchCallback, call, attempt,
                 rpcSwitchAttempted, lastError, invoked, waits>>

\* getBlockNumber, getETHLogs: rateLimiter.executeWithRetry(operation, name)
\* up to its first await: operation() when the loop is entered, the code
\* after the loop otherwise.
executeWithRetry ==
  /\ retryPc = "idle"
  /\ callsDone < MaxCalls
  /\ call' \in {"getBlockNumber", "getETHLogs"}
  /\ attempt' = 1
  /\ rpcSwitchAttempted' = FALSE
  /\ lastError' = "undefined"
  /\ waits' = <<>>
  /\ IF 1 <= retryConfig.maxRetries
       THEN /\ retryPc' = "operation"
            /\ invoked' = 1
            /\ rpcStarts' = Append(rpcStarts, 0)
            /\ outcome' = "none"
            /\ callsDone' = callsDone
       ELSE /\ retryPc' = "idle"
            /\ invoked' = 0
            /\ rpcStarts' = rpcStarts
            /\ outcome' = AfterLoop("undefined")
            /\ callsDone' = callsDone + 1
  /\ UNCHANGED <<syncVars, retryConfig, rpcSwitchCallback>>

\* operation() resolves: return result.
operationResolves ==
  /\ retryPc = "operation"
  /\ \E d \in Latencies : rpcStarts' = Elapse(rpcStarts, d)
  /\ outcome' = "result"
  /\ retryPc' = "idle"
  /\ callsDone' = callsDone + 1
  /\ UNCHANGED <<syncVars, retryConfig, rpcSwitchCallback, call, attempt,
                 rpcSwitchAttempted, lastError, invoked, waits>>

\* operation() rejects with an Error, or with undefined or null: the catch
\* block up to its next await.  logErrorWithRetry reads error.message.
operationRejects ==
  /\ retryPc = "operation"
  /\ \E d \in Latencies : rpcStarts' = Elapse(rpcStarts, d)
  /\ \E thrown \in {"Error", "undefined"} :
        /\ lastError' = thrown
        /\ IF thrown = "undefined"
             THEN /\ outcome' = "TypeError"
                  /\ retryPc' = "idle"
                  /\ callsDone' = callsDone + 1
                  /\ waits' = waits
             ELSE IF attempt = retryConfig.maxRetries
               THEN /\ outcome' = AfterLoop(thrown)
                    /\ retryPc' = "idle"
                    /\ callsDone' = callsDone + 1
                    /\ waits' = waits
               ELSE IF rpcSwitchCallback
                       /\ (~rpcSwitchAttempted \/ attempt % 2 = 0)
                 THEN /\ retryPc' = "rpcSwitchCallback"
                      /\ UNCHANGED <<outcome, callsDone, waits>>
                 ELSE /\ retryPc' = "delay"
                      /\ waits' = Append(waits, BackoffDelay(retryConfig, attempt))
                      /\ UNCHANGED <<outcome, callsDone>>
  /\ UNCHANGED <<syncVars, retryConfig, rpcSwitchCallback, call, attempt,
                 rpcSwitchAttempted, invoked>>

\* rpcSwitchCallback() resolves with switched or not, or rejects (which is
\* caught); the delay is awaited next.
rpcSwitchCallbackDone ==
  /\ retryPc = "rpcSwitchCallback"
  /\ \E switched \in BOOLEAN :
        rpcSwitchAttempted' = (rpcSwitchAttempted \/ switched)
  /\ retryPc' = "delay"
  /\ waits' = Append(waits, BackoffDelay(retryConfig, attempt))
  /\ UNCHANGED <<syncVars, retryConfig, rpcSwitchCallback, call, attempt,
                 lastError, invoked, outcome, rpcStarts, callsDone>>

\* The delay is over: attempt++, and operation() is invoked again.
delayDone ==
  /\ retryPc = "delay"
  /\ attempt' = attempt + 1
  /\ invoked' = invoked + 1
  /\ rpcStarts' = Append(Elapse(rpcStarts, waits[Len(waits)]), 0)
  /\ retryPc' = "operation"
  /\ UNCHANGED <<syncVars, retryConfig, rpcSwitchCallback, call,
                 rpcSwitchAttempted, lastError, waits, outcome, callsDone>>

RetryNext ==
  \/ isConnected \/ isConnectedDone
  \/ executeWithRetry
  \/ operationResolves \/ operationRejects
  \/ rpcSwitchCallbackDone
  \/ delayDone

RetrySpec == RetryInit /\ [][RetryNext]_vars

\* ------------------------------------------------- RateLimiter.executeBatch
\* The engine is not running (the setting of the parts run on their own).
EngineAtRest ==
  /\ config = ConfigOf(Scenario.start_block, Scenario.block_difference,
                       Scenario.batchSize)
  /\ chainHead = Scenario.height
  /\ chainLimit = Scenario.height
  /\ badBlock = NoBlock
  /\ FreshProcess
  /\ checkPoint = NoCheckPoint
  /\ leafs = {}
  /\ unspents = {}
  /\ indexCalls = 0

\* The retry loop of Web3Connector is idle, configured with cfg.
RetryIdle(cfg) ==
  /\ retryConfig = cfg
  /\ rpcSwitchCallback = FALSE
  /\ call = "none"
  /\ retryPc = "idle"
  /\ attempt = 0
  /\ rpcSwitchAttempted = FALSE
  /\ lastError = "undefined"
  /\ invoked = 0
  /\ waits = <<>>
  /\ outcome = "none"
  /\ rpcStarts = <<>>
  /\ callsDone = 0

\* Operations that resolve with 1, 2, .. n.
OperationsOf(n) == [k \in 1..n |-> k]

\* Mutant: the slice is one operation short.
batch_ShortByOne(ops, start, size) ==
  (start + 1) .. Min(start + size - 1, Len(ops))

\* const batch = operations.slice(i, i + batchSize): the positions (from 1)
\* of the operations of the chunk that starts at i = start.
batch(ops, start, size) == (start + 1) .. Min(start + size, Len(ops))

\* batch.map((operation) => this.executeWithRetry(operation)): each call
\* runs up to its first await, operation() when its loop is entered; with
\* maxRetries = 0 it rejects at once.
StartBatch(pcs, chunk) ==
  [k \in DOMAIN pcs |->
     IF k \in chunk
       THEN IF 1 <= retryConfig.maxRetries THEN "operation" ELSE "rejected"
       ELSE pcs[k]]

\* The operations still running or waiting to retry.
InFlight == {k \in DOMAIN opPc : opPc[k] \in {"operation", "delay"}}

\* executeBatch once the calls of the chunk at start have been made and pcs
\* is where they stand: Promise.all rejects with the first rejection and
\* executeBatch rejects; it resolves when every call has resolved, the
\* results are pushed in the order of the chunk, and the next chunk is
\* started or the results are returned; otherwise executeBatch stays
\* suspended.
RECURSIVE AwaitAll(_, _, _)
AwaitAll(pcs, start, res) ==
  LET chunk == batch(operations, start, batchSize)
      next == start + batchSize
  IN IF \E k \in chunk : pcs[k] = "rejected"
       THEN [pc |-> "rejected", i |-> start, results |-> res, opPc |-> pcs]
     ELSE IF \E k \in chunk : pcs[k] # "resolved"
       THEN [pc |-> "Promise.all", i |-> start, results |-> res, opPc |-> pcs]
     ELSE LET pushed == res \o [j \in 1..Cardinality(chunk) |->
                                  operations[start + j]]
          IN IF next < Len(operations)
               THEN AwaitAll(StartBatch(pcs, batch(operations, next, batchSize)),
                             next, pushed)
               ELSE [pc |-> "resolved", i |-> next, results |-> pushed,
                     opPc |-> pcs]

\* let attempt = 1, in the calls of executeWithRetry that have been made.
Attempts(pcs) ==
  [k \in DOMAIN pcs |->
     IF pcs[k] # "new" /\ opAttempt[k] = 0 THEN 1 ELSE opAttempt[k]]

\* The continuation of executeBatch, if any, when the calls stand at pcs.
Continue(pcs) ==
  IF batchPc = "Promise.all"
    THEN LET a == AwaitAll(pcs, batchIndex, allResults)
         IN /\ batchPc' = a.pc
            /\ batchIndex' = a.i
            /\ allResults' = a.results
            /\ opPc' = a.opPc
    ELSE /\ opPc' = pcs
         /\ UNCHANGED <<batchPc, batchIndex, allResults>>

\* Any operations, any batch size from 1 on, any MAX_RETRIES.
BatchInit ==
  /\ EngineAtRest
  /\ \E m \in 0..MaxBatchRetries :
        RetryIdle([Defaults EXCEPT !.maxRetries = m])
  /\ \E n \in 0..MaxOps :
        /\ operations = OperationsOf(n)
        /\ opPc = [k \in 1..n |-> "new"]
        /\ opAttempt = [k \in 1..n |-> 0]
  /\ batchSize \in 1..(MaxOps + 1)
  /\ batchPc = "idle"
  /\ batchIndex = 0
  /\ allResults = <<>>
  /\ QueueAtRest
  /\ HttpAtRest
  /\ CacheAtRest

\* executeBatch(operations, batchSize) up to its first await, or to its
\* return when there is no operation.
executeBatch ==
  /\ batchPc = "idle"
  /\ LET first == batch(operations, 0, batchSize)
         a == IF operations = <<>>
                THEN [pc |-> "resolved", i |-> 0, results |-> <<>>,
                      opPc |-> opPc]
                ELSE AwaitAll(StartBatch(opPc, first), 0, <<>>)
     IN /\ batchPc' = a.pc
        /\ batchIndex' = a.i
        /\ allResults' = a.results
        /\ opPc' = a.opPc
  /\ opAttempt' = Attempts(opPc')
  /\ UNCHANGED <<nonBatchVars, operations, batchSize>>

\* operation() of call k resolves: executeWithRetry returns the result.
opResolves(k) ==
  /\ opPc[k] = "operation"
  /\ Continue([opPc EXCEPT ![k] = "resolved"])
  /\ opAttempt' = Attempts(opPc')
  /\ UNCHANGED <<nonBatchVars, operations, batchSize>>

\* operation() of call k rejects: after the last attempt executeWithRetry
\* throws, before it the delay is awaited.
opRejects(k) ==
  /\ opPc[k] = "operation"
  /\ IF opAttempt[k] = retryConfig.maxRetries
       THEN Continue([opPc EXCEPT ![k] = "rejected"])
       ELSE Continue([opPc EXCEPT ![k] = "delay"])
  /\ opAttempt' = Attempts(opPc')
  /\ UNCHANGED <<nonBatchVars, operations, batchSize>>

\* The delay of call k is over: attempt++, operation() is invoked again.
opDelayDone(k) ==
  /\ opPc[k] = "delay"
  /\ opAttempt' = [opAttempt EXCEPT ![k] = opAttempt[k] + 1]
  /\ opPc' = [opPc EXCEPT ![k] = "operation"]
  /\ UNCHANGED <<nonBatchVars, operations, batchSize, batchPc, batchIndex,
                 allResults>>

BatchNext ==
  \/ executeBatch
  \/ \E k \in DOMAIN opPc : opResolves(k)
  \/ \E k \in DOMAIN opPc : opRejects(k)
  \/ \E k \in DOMAIN opPc : opDelayDone(k)

BatchSpec == BatchInit /\ [][BatchNext]_vars

\* ------------------------------- RateLimiter.execute and processQueue
\* What the request rate is set to when operations go through execute.
QueueRates == {1, 2, Defaults.requestsPerSecond}
\* How long nothing may happen between two submissions, in ms.
IdleTimes == {250, WindowMs}

\* An age (ms since an instant) d ms later; WindowMs stands for that or more.
Later(age, d) == Min(age + d, WindowMs)

\* Mutant: no minimum delay between requests.
minDelay_None(cfg) == 0

\* waitForRateLimit: const minDelay = 1000 / config.requestsPerSecond
minDelay(cfg) == WindowMs \div cfg.requestsPerSecond

\* waitForRateLimit up to its first await or to its return, entered when
\* count requests are counted, reset ms after resetTime and last ms after
\* lastRequestTime: the counter is reset when the window is over; then the
\* rest of the window is awaited when the counter has reached the limit
\* ("rateDelay"), or what is missing to the minimum delay ("minDelay"), or
\* nothing ("request": lastRequestTime is set and the request is run).
waitForRateLimit(count, reset, last) ==
  LET over == reset >= WindowMs
      c == IF over THEN 0 ELSE count
      r == IF over THEN 0 ELSE reset
  IN IF c >= retryConfig.requestsPerSecond /\ WindowMs - r > 0
       THEN [pc |-> "rateDelay", timer |-> WindowMs - r, requestCount |-> c,
             sinceReset |-> r]
     ELSE IF last < minDelay(retryConfig)
       THEN [pc |-> "minDelay", timer |-> minDelay(retryConfig) - last,
             requestCount |-> c, sinceReset |-> r]
     ELSE [pc |-> "request", timer |-> 0, requestCount |-> c, sinceReset |-> r]

\* processQueue awaits waitForRateLimit (w is where that stands, last the
\* age of lastRequestTime, starts the operations started so far): it stays
\* suspended in a delay, or lastRequestTime is set and request() is called.
Await(w, last, starts) ==
  /\ queuePc' = w.pc
  /\ timer' = w.timer
  /\ requestCount' = w.requestCount
  /\ sinceReset' = w.sinceReset
  /\ sinceLast' = IF w.pc = "request" THEN 0 ELSE last
  /\ opStarts' = IF w.pc = "request" THEN Append(starts, 0) ELSE starts

\* Mutant: the newest operation is taken first.
Loop_TakeLast(queue, count, reset, last, starts) ==
  IF queue = <<>>
    THEN /\ isProcessing' = FALSE
         /\ queuePc' = "finally"
         /\ timer' = 0
         /\ requestCount' = count
         /\ sinceReset' = reset
         /\ sinceLast' = last
         /\ opStarts' = starts
         /\ UNCHANGED <<requestQueue, request>>
    ELSE /\ isProcessing' = TRUE
         /\ request' = queue[Len(queue)]
         /\ requestQueue' = SubSeq(queue, 1, Len(queue) - 1)
         /\ Await(waitForRateLimit(count, reset, last), last, starts)

\* processQueue at the head of its while loop, with count requests counted
\* and the ages reset, last and starts: the next operation is taken and
\* waitForRateLimit is awaited, or the loop is left (isProcessing = false)
\* and the finally callback of execute is due.
Loop(queue, count, reset, last, starts) ==
  IF queue = <<>>
    THEN /\ isProcessing' = FALSE
         /\ queuePc' = "finally"
         /\ timer' = 0
         /\ requestCount' = count
         /\ sinceReset' = reset
         /\ sinceLast' = last
         /\ opStarts' = starts
         /\ UNCHANGED <<requestQueue, request>>
    ELSE /\ isProcessing' = TRUE
         /\ request' = Head(queue)
         /\ requestQueue' = Tail(queue)
         /\ Await(waitForRateLimit(count, reset, last), last, starts)

\* Any request rate; the limiter was constructed some time ago.
QueueInit ==
  /\ EngineAtRest
  /\ \E r \in QueueRates :
        RetryIdle([Defaults EXCEPT !.requestsPerSecond = r])
  /\ BatchAtRest
  /\ QueueAtRest
  /\ HttpAtRest
  /\ CacheAtRest

\* execute(operation): the wrapped operation is pushed; processQueue is
\* started unless a processing promise exists.
execute ==
  /\ submitted < MaxSubmits
  /\ submitted' = submitted + 1
  /\ IF processingPromise
       THEN /\ requestQueue' = Append(requestQueue, submitted + 1)
            /\ UNCHANGED <<isProcessing, processingPromise, requestCount,
                           sinceReset, sinceLast, queuePc, timer, request,
                           opStarts>>
       ELSE /\ processingPromise' = TRUE
            /\ Loop(Append(requestQueue, submitted + 1), requestCount,
                    sinceReset, sinceLast, opStarts)
  /\ UNCHANGED <<nonQueueVars, settled, finished>>

\* The delay awaited in waitForRateLimit is over.  After the wait for the
\* window waitForRateLimit runs again; after the wait for the minimum delay
\* lastRequestTime is set and request() is called.
delayOver ==
  /\ queuePc \in {"rateDelay", "minDelay"}
  /\ IF queuePc = "rateDelay"
       THEN Await(waitForRateLimit(requestCount, Later(sinceReset, timer),
                                   Later(sinceLast, timer)),
                  Later(sinceLast, timer), Elapse(opStarts, timer))
       ELSE /\ queuePc' = "request"
            /\ timer' = 0
            /\ sinceLast' = 0
            /\ sinceReset' = Later(sinceReset, timer)
            /\ opStarts' = Append(Elapse(opStarts, timer), 0)
            /\ UNCHANGED requestCount
  /\ UNCHANGED <<nonQueueVars, requestQueue, isProcessing, processingPromise,
                 request, settled, finished, submitted>>

\* request() has settled (the operation resolved or rejected, and so has the
\* promise execute returned): requestCount++, and the loop goes on.
requestDone ==
  /\ queuePc = "request"
  /\ settled' = settled \cup {request}
  /\ finished' = finished \cup {request}
  /\ \E d \in Latencies :
        Loop(requestQueue, requestCount + 1, Later(sinceReset, d),
             Later(sinceLast, d), Elapse(opStarts, d))
  /\ UNCHANGED <<nonQueueVars, processingPromise, submitted>>

\* request() rejects: the operation rejected with undefined or null, and
\* the catch block of the wrapper throws on error.message before it calls
\* reject.  processQueue rethrows and leaves its loop through finally.
requestThrows ==
  /\ queuePc = "request"
  /\ finished' = finished \cup {request}
  /\ isProcessing' = FALSE
  /\ queuePc' = "finally"
  /\ \E d \in Latencies :
        /\ sinceReset' = Later(sinceReset, d)
        /\ sinceLast' = Later(sinceLast, d)
        /\ opStarts' = Elapse(opStarts, d)
  /\ UNCHANGED <<nonQueueVars, requestQueue, processingPromise, requestCount,
                 timer, request, settled, submitted>>

\* The finally callback: this.processingPromise = null.
processingPromiseFinally ==
  /\ queuePc = "finally"
  /\ processingPromise' = FALSE
  /\ queuePc' = "none"
  /\ UNCHANGED <<nonQueueVars, requestQueue, isProcessing, requestCount,
                 sinceReset, sinceLast, timer, request, settled, finished,
                 submitted, opStarts>>

\* Nothing is submitted and nothing is processed for a while.
Idle ==
  /\ queuePc = "none"
  /\ submitted < MaxSubmits
  /\ \E d \in IdleTimes :
        /\ sinceReset' = Later(sinceReset, d)
        /\ sinceLast' = Later(sinceLast, d)
        /\ opStarts' = Elapse(opStarts, d)
  /\ UNCHANGED <<nonQueueVars, requestQueue, isProcessing, processingPromise,
                 requestCount, queuePc, timer, request, settled, finished,
                 submitted>>

QueueNext ==
  \/ execute
  \/ delayOver
  \/ requestDone
  \/ requestThrows
  \/ processingPromiseFinally
  \/ Idle

QueueSpec == QueueInit /\ [][QueueNext]_vars

\* What the event loop runs on its own: a timer that fires, an operation
\* that settles, the finally callback.
QueueStep ==
  delayOver \/ requestDone \/ requestThrows \/ processingPromiseFinally

\* execute is called whenever a caller chooses to (or never again); every
\* delay ends, every operation settles and every callback that is due runs.
QueueFairSpec == QueueInit /\ [][QueueNext]_vars /\ WF_vars(QueueStep)

\* ---------------------------------------------------------- GET /utxos
\* The numbers a query value or the collection's size is drawn from.
Sizes == {0, 1, DefaultEnd, MAX_LIMIT, MAX_LIMIT + 1, MaxStored}

\* req.query[name] || fallback, then Number(..): a missing or empty value
\* gives the fallback, a decimal string its number.
QueryNumber(value, fallback) == IF value = NoValue THEN fallback ELSE value

\* collection.getUTXOs(Number(start), Number(end), ..): what is passed as
\* limit.
PageLimit(start, end) == end

\* find(..).skip(start).limit(limit).toArray(): the number of documents
\* read, of total that match (limit > 0).
Found(total, start, limit) ==
  IF total - start <= 0 THEN 0 ELSE Min(limit, total - start)

\* A request with any start, any end from 1 on (or none) and any
\* utxos_type, against a collection of any size.
HttpInit ==
  /\ EngineAtRest
  /\ RetryIdle(Defaults)
  /\ BatchAtRest
  /\ QueueAtRest
  /\ query \in [start : Sizes \cup {NoValue},
                end : (Sizes \ {0}) \cup {NoValue},
                utxos_type : {"encrypted", "unencrypted", "", "all"}]
  /\ response = NoResponse
  /\ stored \in Sizes
  /\ CacheAtRest

\* getUTXOs: the whole handler, the collection answering.
getUTXOs ==
  /\ response = NoResponse
  /\ LET start == QueryNumber(query.start, DefaultStart)
         end == QueryNumber(query.end, DefaultEnd)
     IN response' =
          IF query.utxos_type \notin {"encrypted", "unencrypted"}
            THEN [status |-> 400, message |-> "Invalid utxos type", read |-> 0]
          ELSE IF start - end > MAX_LIMIT
            THEN [status |-> 400, message |-> "Max limit exceeded", read |-> 0]
          ELSE [status |-> 200, message |-> "",
                read |-> Found(stored, start, PageLimit(start, end))]
  /\ UNCHANGED <<nonHttpVars, query, stored>>

\* getUTXOs: a call of the collection throws, the catch answers 500.
getUTXOsFail ==
  /\ response = NoResponse
  /\ query.utxos_type \in {"encrypted", "unencrypted"}
  /\ LET start == QueryNumber(query.start, DefaultStart)
         end == QueryNumber(query.end, DefaultEnd)
     IN ~(start - end > MAX_LIMIT)
  /\ response' = [status |-> 500, message |-> "Internal server error",
                  read |-> 0]
  /\ UNCHANGED <<nonHttpVars, query, stored>>

HttpNext == getUTXOs \/ getUTXOsFail

\* GET /health: what is answered when getCheckPoint finds cp.
health(cp) ==
  IF cp = NoCheckPoint
    THEN [status |-> 500, lastIndexedBlock |-> -1, latestBlock |-> -1,
          difference |-> 0]
    ELSE [status |-> 200, lastIndexedBlock |-> cp.lastIndexedBlock,
          latestBlock |-> cp.latestBlock,
          difference |-> cp.latestBlock - cp.lastIndexedBlock]

HttpSpec == HttpInit /\ [][HttpNext]_vars

\* ---------------------------------------------------------- EtherDecoder
\* The dataType arguments: a type string, or a list of type strings.
DataTypes ==
  {[isArray |-> FALSE, types |-> <<"uint256">>],
   [isArray |-> FALSE, types |-> <<"address">>],
   [isArray |-> TRUE, types |-> <<"uint256">>],
   [isArray |-> TRUE, types |-> <<"uint256", "address">>]}

\* The options arguments: none, or { decimals: 18 }.
DecodeOptions == {"", "decimals"}

\* The arguments of a decode call; hex is a well-formed payload of that
\* many 32-byte words.
DecodeArgs ==
  {[hex |-> h, dataType |-> d.types, isArray |-> d.isArray, options |-> o] :
     h \in 0..MaxWords, d \in DataTypes, o \in DecodeOptions}

\* createCacheKey: `${hex}:${dataTypeStr}:${optionsStr}`, where dataTypeStr
\* is the type string or the list joined with ",": the text of a list of
\* one type is that type's text.
createCacheKey(a) == <<a.hex, a.dataType, a.options>>

\* decodeSingleType / decodeMultipleTypes: the value of word j decoded as
\* type, formatted with the decimals when asked for and the type is uint256.
DecodedValue(a, j, type) ==
  [word |-> j, of |-> a.hex, as |-> type,
   formatted |-> (a.options = "decimals" /\ type = "uint256")]

\* decodeSingleType: abiCoder.decode([dataType], hex) fails when the payload
\* has no word for the type; data is the decoded value.
decodeSingleType(a) ==
  IF a.hex = 0 \/ Len(a.dataType) > a.hex
    THEN [success |-> FALSE, error |-> "Decoding error"]
    ELSE [success |-> TRUE,
          data |-> [shape |-> "value",
                    items |-> <<DecodedValue(a, 1, a.dataType[1])>>]]

\* decodeMultipleTypes: data is a list with one entry per type, each the
\* type and a result of its own.
decodeMultipleTypes(a) ==
  IF a.hex = 0 \/ Len(a.dataType) > a.hex
    THEN [success |-> FALSE, error |-> "Decoding error"]
    ELSE [success |-> TRUE,
          data |-> [shape |-> "list",
                    items |-> [j \in 1..Len(a.dataType) |->
                                 [dataType |-> a.dataType[j],
                                  result |-> DecodedValue(a, j, a.dataType[j])]]]]

\* decode when the cache holds no entry for the key.
Uncached(a) == IF a.isArray THEN decodeMultipleTypes(a) ELSE decodeSingleType(a)

\* this.cache.get(cacheKey): the positions of the entry (at most one).
CacheGet(c, key) == {j \in 1..Len(c) : c[j].key = key}

\* this.cache.set(cacheKey, { result, timestamp: Date.now() }): an existing
\* key keeps its place.
CacheSet(c, key, result) ==
  LET entry == [key |-> key, result |-> result, expired |-> FALSE]
  IN IF CacheGet(c, key) = {}
       THEN Append(c, entry)
       ELSE [j \in 1..Len(c) |-> IF c[j].key = key THEN entry ELSE c[j]]

\* Mutant: only the expired entries are deleted.
manageCacheSize_ExpiredOnly(c, maxSize) == SelectSeq(c, LAMBDA e : ~e.expired)

\* manageCacheSize: expired entries are deleted, then the oldest ones beyond
\* maxCacheSize (maxSize is what this.maxCacheSize holds).
manageCacheSize(c, maxSize) ==
  LET live == SelectSeq(c, LAMBDA e : ~e.expired)
  IN IF Len(live) > maxSize
       THEN SubSeq(live, Len(live) - maxSize + 1, Len(live))
       ELSE live

\* manageCacheSize: const entriesToRemove = this.cache.size -
\* this.maxCacheSize, of the entries left once the expired ones are deleted;
\* none when the cache is not cleaned.
entriesToRemove(c, maxSize) ==
  LET live == SelectSeq(c, LAMBDA e : ~e.expired)
  IN IF Len(c) > maxSize /\ Len(live) > maxSize THEN Len(live) - maxSize ELSE 0

\* decode: what is returned.
DecodeReturns(c, a) ==
  LET hit == CacheGet(c, createCacheKey(a))
  IN IF \E j \in hit : ~c[j].expired
       THEN c[CHOOSE j \in hit : TRUE].result
       ELSE Uncached(a)

\* decode: the cache afterwards.
DecodeCaches(c, a) ==
  LET hit == CacheGet(c, createCacheKey(a))
      set == CacheSet(c, createCacheKey(a), Uncached(a))
  IN IF \E j \in hit : ~c[j].expired THEN c
     ELSE IF ~Uncached(a).success THEN c
     ELSE IF Len(set) > cacheSettings.maxCacheSize
       THEN manageCacheSize(set, cacheSettings.maxCacheSize)
     ELSE set

DecodeInit ==
  /\ EngineAtRest
  /\ RetryIdle(Defaults)
  /\ BatchAtRest
  /\ QueueAtRest
  /\ HttpAtRest
  /\ CacheAtRest

\* EtherDecoder.decode(hex, dataType, options)
decode ==
  /\ decodes < MaxDecodes
  /\ \E a \in DecodeArgs :
        /\ decodeArgs' = a
        /\ decodeResult' = DecodeReturns(cache, a)
        /\ cache' = DecodeCaches(cache, a)
        /\ evicted' =
             IF DecodeCaches(cache, a) = cache THEN 0
             ELSE entriesToRemove(CacheSet(cache, createCacheKey(a), Uncached(a)),
                                  cacheSettings.maxCacheSize)
  /\ decodes' = decodes + 1
  /\ UNCHANGED <<nonCacheVars, cacheSettings>>

\* cacheExpiryMs pass: what the cache holds has expired.
cacheExpires ==
  /\ \E j \in 1..Len(cache) : ~cache[j].expired
  /\ cache' = [j \in 1..Len(cache) |-> [cache[j] EXCEPT !.expired = TRUE]]
  /\ UNCHANGED <<nonCacheVars, cacheSettings, evicted, decodeArgs,
                 decodeResult, decodes>>

\* What expiryMs is given as: nothing, a time shorter than the age of every
\* entry, or a time longer than the age of every entry.
ExpiryArgs == {"undefined", "shorter", "longer"}

\* The entries of the cache as the expiry time makes them: expired or not.
UnderExpiry(c, expiryMs) ==
  [j \in 1..Len(c) |->
     [c[j] EXCEPT !.expired = CASE expiryMs = "shorter" -> TRUE
                                [] expiryMs = "longer" -> FALSE
                                [] OTHER -> c[j].expired]]

\* EtherDecoder.configureCacheSettings(maxSize, expiryMs): a maxSize that is
\* given and positive is taken, and so is such an expiryMs; the cache is
\* cleaned when it is larger than the size.
configureCacheSettings ==
  /\ \E maxSize \in {NoValue} \cup (0..MaxCacheSetting), expiryMs \in ExpiryArgs :
        LET size == IF maxSize # NoValue /\ maxSize > 0
                      THEN maxSize ELSE cacheSettings.maxCacheSize
            aged == UnderExpiry(cache, expiryMs)
            cleaned == IF Len(aged) > size
                         THEN manageCacheSize(aged, size) ELSE aged
        IN /\ cacheSettings' = [maxCacheSize |-> size]
           /\ cache' = cleaned
           /\ evicted' = entriesToRemove(aged, size)
  /\ UNCHANGED <<nonCacheVars, decodeArgs, decodeResult, decodes>>

DecodeNext == decode \/ cacheExpires \/ configureCacheSettings

DecodeSpec == DecodeInit /\ [][DecodeNext]_vars

\* ------------------------------------------------------------------ claims
\* The engine object exists (Main has constructed it, the process lives).
Running == pc \notin {"Main", "dead"}

\* C1: the checkpoint write of a batch completes before any leaf or unspent
\* record of that batch is inserted: while records are being inserted the
\* stored checkpoint is beyond every buffered log, and every stored record's
\* blockNumber is at most the stored checkpoint's lastIndexedBlock.
C1_CheckpointBeforeRecords ==
  /\ \A r \in leafs :
       checkPoint # NoCheckPoint /\ r.blockNumber <= checkPoint.lastIndexedBlock
  /\ \A r \in unspents :
       checkPoint # NoCheckPoint /\ r.blockNumber <= checkPoint.lastIndexedBlock
  /\ pc \in {"insertLeaf", "insertUTXOs"} =>
       \A i \in 1..Len(logsData) :
         checkPoint # NoCheckPoint
         /\ logsData[i].blockNumber <= checkPoint.lastIndexedBlock

\* A batch has been indexed: leaves and unspents are stored.
C1_Witness == pc = "iterationDone" /\ leafs # {} /\ unspents # {}

\* C2: across checkpoint writes, failed iterations, retries and restarts the
\* stored lastIndexedBlock never decreases (and the checkpoint never vanishes).
C2_CheckpointMonotone ==
  [][checkPoint # NoCheckPoint =>
       /\ checkPoint' # NoCheckPoint
       /\ checkPoint'.lastIndexedBlock >= checkPoint.lastIndexedBlock]_vars

\* A restarted run, after a failed iteration, has just written a checkpoint
\* beyond the configured start block.
C2_Witness ==
  /\ restarts >= 1
  /\ lastIter = "failed"
  /\ pc = StepAfter("updateCheckPoint")
  /\ checkPoint # NoCheckPoint
  /\ checkPoint.lastIndexedBlock > config.start_block

\* C3: whenever the engine writes a checkpoint, the lastIndexedBlock it stores
\* is the end block of the most recently fetched range.
C3_CheckpointIsFetchedEnd ==
  [][checkPoint' # checkPoint =>
       /\ lastRange' # NoRange
       /\ checkPoint'.lastIndexedBlock = lastRange'.end]_vars

C5_FailedIterationKeepsPosition ==
  pc = "errorBackoff" => startBlockNumber = iterStart

\* C6: whenever there is no new work (the calculated range is empty) the
\* engine fetches nothing and goes to the idle wait, and from there re-fetches
\* the chain height, before it calculates a range or writes a checkpoint again.
C6_NoWorkThenIdle ==
  [][(InnerCond /\ latestBlockNumber - config.block_difference < startBlockNumber)
       => pc' \in {"inner", "idleWait", "dead"}]_vars

\* C7: forward progress: when every call succeeds, nobody stops the engine and
\* the chain grows, every block b that becomes <= currentHeight -
\* blockDifference while the chain is still growing is eventually passed by
\* the engine's position.
C7_ForwardProgress ==
  \A b \in (UNION {x .. (x + MaxHeight) : x \in Bases})
           \cup (Scenario.start_block .. Scenario.height) :
    (/\ Running
     /\ chainHead < chainLimit
     /\ config.start_block <= b
     /\ b <= chainHead - config.block_difference)
      ~> (startBlockNumber > b)

C9_StopsAtTenthFailure ==
  [][erroCount' = erroCount + 1 =>
       ((pc' = "errorBackoff") <=> (failStreak' < ErrorLimit))]_vars

\* C10: an iteration that completes resets the consecutive-error counter to 0.
C10_SuccessResetsCounter ==
  lastIter = "ok" => erroCount = 0

\* C11: the first range a run fetches starts at the lastIndexedBlock of the
\* checkpoint that was stored when the run started, and at the configured
\* start block when no checkpoint was stored.
C11_FirstRangeFromCheckPoint ==
  (pc = "getETHLogs" /\ lastRange = NoRange) =>
     blockRange.start = IF bootCheckPoint # NoCheckPoint
                          THEN bootCheckPoint.lastIndexedBlock
                          ELSE config.start_block

\* A restarted run that found a checkpoint beyond the configured start block
\* is fetching its first range.
C11_Witness ==
  /\ restarts >= 1
  /\ pc = "getETHLogs"
  /\ lastRange = NoRange
  /\ bootCheckPoint # NoCheckPoint
  /\ bootCheckPoint.lastIndexedBlock > config.start_block

\* C12: when the process ends after the checkpoint write of a batch and
\* before the batch's inserts have completed, the stored checkpoint is the
\* block after the batch's end, and the run started afterwards never fetches
\* a range that includes a block of that batch (whose records may be absent).
C12_CrashAfterCheckPoint ==
  lostRange # NoRange =>
     /\ checkPoint # NoCheckPoint
     /\ checkPoint.lastIndexedBlock > lostRange.end
     /\ pc = "dead" => checkPoint.lastIndexedBlock = lostRange.end + 1
     /\ pc = "getETHLogs" => blockRange.start > lostRange.end
     /\ (pc # "dead" /\ lastRange # NoRange) => lastRange.start > lostRange.end

\* The run after such a crash is fetching, and a recognised log of the lost
\* batch has no leaf record.
C12_Witness ==
  /\ restarts >= 1
  /\ lostRange # NoRange
  /\ pc = "getETHLogs"
  /\ \E b \in lostRange.start .. lostRange.end :
        /\ DecodedResults(BlockLogs(b, badBlock)) # <<>>
        /\ \A r \in leafs : r.blockNumber # b

\* C13: insertLeaf and insertUTXOs on a batch of records skip every record
\* whose uniqueness key is already stored (by an earlier run or by an earlier
\* record of the batch), store every other record, leave the stored records
\* as they are, and return without raising.
C13_InsertSkipsDuplicates ==
  [][/\ (pc = "insertLeaf" /\ pc' # "insertLeaf") =>
          LET docs == LeafDocs(DecodedResults(logsData))
              fresh == {k \in 1..Len(docs) :
                          /\ ~\E e \in leafs :
                                 /\ e.txid = docs[k].txid
                                 /\ e.index = docs[k].index
                                 /\ e.blockNumber = docs[k].blockNumber
                          /\ ~\E j \in 1..(k - 1) :
                                 /\ docs[j].txid = docs[k].txid
                                 /\ docs[j].index = docs[k].index
                                 /\ docs[j].blockNumber = docs[k].blockNumber}
          IN /\ leafs' = leafs \cup {docs[k] : k \in fresh}
             /\ pc' = "insertUTXOs"
     /\ (pc = "insertUTXOs" /\ pc' # "insertUTXOs") =>
          LET docs == UnspentsToInsert(UnspentDocs(DecodedResults(logsData)))
              fresh == {k \in 1..Len(docs) :
                          /\ ~\E e \in unspents :
                                 /\ e.txid = docs[k].txid
                                 /\ e.blockNumber = docs[k].blockNumber
                          /\ ~\E j \in 1..(k - 1) :
                                 /\ docs[j].txid = docs[k].txid
                                 /\ docs[j].blockNumber = docs[k].blockNumber}
          IN /\ unspents' = unspents \cup {docs[k] : k \in fresh}
             /\ docs # <<>> => pc' = StepAfter("index")]_vars

\* A first call of index has returned: one unspent of the batch was skipped
\* for the key of a record stored before, another one was stored, and the
\* records stored before are still there.
C13_Witness ==
  /\ pc = StepAfter("index")
  /\ indexCalls = 0
  /\ StoredLeafs \subseteq leafs
  /\ StoredUnspents \subseteq unspents
  /\ LET docs == UnspentsToInsert(UnspentDocs(DecodedResults(logsData)))
     IN \E i, j \in 1..Len(docs) : docs[i] \notin unspents /\ docs[j] \in unspents
  /\ LET docs == LeafDocs(DecodedResults(logsData))
     IN \E i, j \in 1..Len(docs) : docs[i] \notin leafs /\ docs[j] \in leafs

\* C14: re-indexing is idempotent: once index has returned for a batch, a
\* second call of index on the same logs changes neither collection and
\* raises no error, and at no time do two stored leaves share (txid, index,
\* blockNumber) or two stored unspents share (txid, blockNumber).
C14_ReindexIdempotent ==
  [][/\ indexCalls >= 1 =>
          /\ leafs' = leafs
          /\ unspents' = unspents
          /\ erroCount' = erroCount
          /\ pc' # "errorBackoff"
     /\ \A a, b \in leafs' :
          (a.txid = b.txid /\ a.index = b.index
             /\ a.blockNumber = b.blockNumber) => a = b
     /\ \A a, b \in unspents' :
          (a.txid = b.txid /\ a.blockNumber = b.blockNumber) => a = b]_vars

\* The second call of index has returned, and records of the batch are
\* stored in both collections.
C14_Witness ==
  /\ indexCalls = 1
  /\ pc = StepAfter("index")
  /\ \E i \in 1..Len(LeafDocs(DecodedResults(logsData))) :
        LeafDocs(DecodedResults(logsData))[i] \in leafs
  /\ \E i \in 1..Len(UnspentDocs(DecodedResults(logsData))) :
        UnspentDocs(DecodedResults(logsData))[i] \in unspents

\* C15: when a log of the buffered batch fails to decode, index drops that
\* log only: the call counts no engine failure and goes on to insert the
\* records of the other recognised logs (or returns when there is none).
C15_DecodeFailureDropsOnlyThatLog ==
  [][(pc = "index" /\ DecodeThrows(logsData)) =>
       /\ erroCount' = erroCount
       /\ pc' \in {"index", "insertLeaf", StepAfter("index"), "dead"}]_vars

\* C16: a log whose first topic is neither the ShieldAssets nor the
\* UTXOsUpdate signature raises no error and produces no leaf and no unspent
\* record; index does with the batch what it does with the batch without
\* that log.
C16_UnrecognisedLogIgnored ==
  [][LET others == SelectSeq(logsData, LAMBDA l : l.topic # "OTHER")
     IN /\ (pc = "index" /\ pc' = "errorBackoff") =>
             \E i \in 1..Len(others) : ~others[i].ok
        /\ (pc = "index" /\ pc' = StepAfter("index")) => others = <<>>
        /\ (pc = "insertLeaf" /\ pc' # "insertLeaf") =>
             leafs' = insertLeaf(leafs, LeafDocs(DecodedResults(others)))
        /\ (pc = "insertUTXOs" /\ pc' # "insertUTXOs") =>
             unspents' = insertUTXOs(unspents,
                           UnspentsToInsert(UnspentDocs(DecodedResults(others))))
        /\ \A r \in (leafs' \ leafs) \cup (unspents' \ unspents) :
             \E i \in 1..Len(others) :
                /\ others[i].transactionHash = r.txid
                /\ others[i].blockNumber = r.blockNumber]_vars

\* index has returned for a batch that holds a log of another event and a
\* recognised log: the latter has its leaf, the former has none.
C16_Witness ==
  /\ pc = StepAfter("index")
  /\ \E i, j \in 1..Len(logsData) :
        /\ logsData[i].topic = "OTHER"
        /\ logsData[j].topic # "OTHER"
        /\ \E r \in leafs : /\ r.txid = logsData[j].transactionHash
                             /\ r.index = logsData[j].logIndex
                             /\ r.commitment = logsData[j].data
        /\ ~\E r \in leafs : /\ r.txid = logsData[i].transactionHash
                              /\ r.index = logsData[i].logIndex

\* C17: for the recognised logs of a batch, in order, IndexOnDB builds exactly
\* one leaf document with the log's (txid, logIndex, blockNumber) and exactly
\* one unspent document with the log's (txid, blockNumber): for a ShieldAssets
\* log with isEncrypted = false and only UTXOs populated, for a UTXOsUpdate
\* log with isEncrypted = true and only encryptedUTXO populated.
C17_OneLeafOneUnspentPerLog ==
  pc \in {"insertLeaf", "insertUTXOs"} =>
    LET rec == SelectSeq(logsData, LAMBDA l : l.topic # "OTHER")
        L == LeafDocs(DecodedResults(logsData))
        U == UnspentDocs(DecodedResults(logsData))
    IN /\ Len(L) = Len(rec)
       /\ Len(U) = Len(rec)
       /\ \A i \in 1..Len(rec) :
            /\ L[i].txid = rec[i].transactionHash
            /\ L[i].index = rec[i].logIndex
            /\ L[i].blockNumber = rec[i].blockNumber
            /\ U[i].txid = rec[i].transactionHash
            /\ U[i].blockNumber = rec[i].blockNumber
            /\ rec[i].topic = "SHIELD_ASSETS" =>
                 /\ U[i].isEncrypted = FALSE
                 /\ DOMAIN U[i] = {"UTXOs", "isEncrypted", "blockNumber", "txid"}
                 /\ U[i].UTXOs = rec[i].data
            /\ rec[i].topic = "UTXOS_UPDATE" =>
                 /\ U[i].isEncrypted = TRUE
                 /\ DOMAIN U[i] =
                      {"encryptedUTXO", "isEncrypted", "blockNumber", "txid"}
                 /\ U[i].encryptedUTXO = rec[i].data

\* IndexOnDB has built the documents of a batch that holds a ShieldAssets log
\* and a UTXOsUpdate log.
C17_Witness ==
  /\ pc = "insertUTXOs"
  /\ \E i, j \in 1..Len(logsData) :
        /\ logsData[i].topic = "SHIELD_ASSETS"
        /\ logsData[j].topic = "UTXOS_UPDATE"

\* C18: executeWithRetry on an operation whose every attempt fails (with an
\* Error) invokes it exactly maxRetries times, waits retryDelay * 2^(k-1) ms
\* after the k-th failed attempt for k = 1 .. maxRetries - 1 and does not
\* wait after the last one; maxRetries = 3 and retryDelay = 1000 give the
\* delays 1000 and 2000.
C18_RetryBackoff ==
  /\ \A k \in 1..Len(waits) : waits[k] = retryConfig.retryDelay * 2^(k - 1)
  /\ (retryPc = "idle" /\ outcome = "maxRetryError") =>
        /\ invoked = retryConfig.maxRetries
        /\ Len(waits) = retryConfig.maxRetries - 1
        /\ (retryConfig.maxRetries = 3 /\ retryConfig.retryDelay = 1000) =>
              waits = <<1000, 2000>>

\* With the default settings, the retries of a call are exhausted.
C18_Witness ==
  /\ retryPc = "idle"
  /\ outcome = "maxRetryError"
  /\ retryConfig.maxRetries = Defaults.maxRetries
  /\ retryConfig.retryDelay = Defaults.retryDelay
  /\ invoked = Defaults.maxRetries

\* C19: for every maxRetries setting and every value the operation throws,
\* executeWithRetry ends in one of two ways: it returns the result of the
\* first attempt that succeeds, or it fails with the max-retry error that
\* carries the last error; it never fails with another error and never ends
\* without having invoked the operation.
C19_TwoOutcomes ==
  (retryPc = "idle" /\ call \in {"getBlockNumber", "getETHLogs"}) =>
     /\ invoked >= 1
     /\ \/ outcome = "result"
        \/ outcome = "maxRetryError" /\ lastError = "Error"

\* C20: every request the Web3Connector sends to the endpoint (getBlockNumber,
\* getETHLogs, the probe of isConnected) is rate limited: consecutive requests
\* start at least 1000 / requestsPerSecond ms apart, and no more than
\* requestsPerSecond requests start within any window of one second.
C20_RequestsRateLimited ==
  /\ \A i \in 1..(Len(rpcStarts) - 1) :
       (rpcStarts[i] - rpcStarts[i + 1]) * retryConfig.requestsPerSecond >= 1000
  /\ Len(rpcStarts) <= retryConfig.requestsPerSecond

C22_StopLeadsToExit == (Running /\ isClosed) ~> (pc = "stopped")

\* stopSync was called while getETHLogs was in flight.
C22_Witness == pc = "getETHLogs" /\ isClosed /\ ~web3

\* C27: a failure to connect or to fetch the current chain height counts
\* toward the consecutive-error limit: when every height call fails (no
\* initializeConnection resolves) and no shutdown signal arrives, the engine
\* eventually is STOPPED.
C27_HeightFailuresStop ==
  <>(pc = "stopped" \/ pc = "inner" \/ isShuttingDown)

\* C23: on SIGTERM / SIGINT the process exits only after the in-flight
\* iteration has finished: the shutdown handler never ends the process
\* between a batch's checkpoint write and the completion of that batch's
\* record inserts, however long the fetch, the retries or the inserts take.
C23_ExitAfterIteration ==
  ~(pc = "dead" /\ isShuttingDown /\ lostRange # NoRange)

\* C28: with a switch callback registered, executeWithRetry attempts an
\* endpoint switch after the first failed attempt and from then on only
\* after even-numbered attempts, whether or not the callback reported that a
\* switch occurred.
C28_SwitchSchedule ==
  retryPc = "rpcSwitchCallback" => (attempt = 1 \/ attempt % 2 = 0)

\* C21: executeBatch, when every operation succeeds in the end, returns
\* exactly operations.length results in submission order, for every batch
\* size from 1 on; when an operation exhausts its retries the whole call
\* fails and no later chunk is started.
C21_BatchResults ==
  /\ batchPc = "resolved" => allResults = operations
  /\ (batchPc # "idle" /\ \A k \in DOMAIN opPc : opPc[k] = "resolved") =>
        (batchPc = "resolved" /\ Len(allResults) = Len(operations))
  /\ (\E k \in DOMAIN opPc : opPc[k] = "rejected") =>
        /\ batchPc = "rejected"
        /\ \A j \in DOMAIN opPc : j > batchIndex + batchSize => opPc[j] = "new"

\* Three operations in chunks of two have been run, one of them at its
\* second attempt.
C21_Witness ==
  /\ batchPc = "resolved"
  /\ Len(operations) = 3
  /\ batchSize = 2
  /\ \E k \in DOMAIN opAttempt : opAttempt[k] = 2

\* C30: during and after an executeBatch call at most batchSize of its
\* operations are in flight, and the call joins its chunk before proceeding:
\* while a chunk is awaited no operation of an earlier chunk is in flight,
\* and once the call has settled (resolved or rejected) none of its
\* operations is still running or waiting to retry.
C30_BatchJoins ==
  /\ Cardinality(InFlight) <= batchSize
  /\ batchPc = "Promise.all" => \A k \in InFlight : k > batchIndex
  /\ batchPc \in {"resolved", "rejected"} => InFlight = {}

\* C29: for operations submitted through execute, whenever they arrive,
\* consecutive operation starts are at least 1000 / requestsPerSecond ms
\* apart and at most requestsPerSecond operations start within any window of
\* one second; a caller over the limit is suspended until the window resets
\* (its operation stays queued or taken until it is run, it is not dropped).
C29_ExecuteRateLimited ==
  /\ \A j \in 1..(Len(opStarts) - 1) :
       (opStarts[j] - opStarts[j + 1]) * retryConfig.requestsPerSecond >= 1000
  /\ Len(opStarts) <= retryConfig.requestsPerSecond
  /\ queuePc = "rateDelay" =>
       /\ requestCount >= retryConfig.requestsPerSecond
       /\ sinceReset + timer = WindowMs
  /\ \A c \in 1..submitted :
       \/ c \in finished
       \/ \E j \in 1..Len(requestQueue) : requestQueue[j] = c
       \/ c = request /\ queuePc \in {"rateDelay", "minDelay", "request"}

\* At the default rate a caller is suspended for the rest of the window,
\* as many operations as the rate allows having started within the last
\* second.
C29_Witness ==
  /\ queuePc = "rateDelay"
  /\ retryConfig.requestsPerSecond = Defaults.requestsPerSecond
  /\ Len(opStarts) = Defaults.requestsPerSecond

\* C24: a GET /utxos request never returns more than 1100 records: for every
\* start and end, either the request is rejected with "Max limit exceeded"
\* or at most 1100 records are read from the store.
C24_PageCapped ==
  response # NoResponse =>
    \/ response.status = 400 /\ response.message = "Max limit exceeded"
    \/ response.read <= 1100

\* C25: EtherDecoder.decode returns the same result whether or not the cache
\* holds entries from earlier decode calls (with a type string or with a
\* type list): the result is the one of decoding with an empty cache.
C25_CacheTransparent ==
  decodes > 0 => decodeResult = Uncached(decodeArgs)

\* C31: once stopSync has set the stop flag, the engine starts no new log
\* fetch and begins no new iteration, and a checkpoint written from then on
\* belongs to the iteration that was running when the flag was set: it is
\* the position after the range that iteration fetched (its own position
\* when it fetched nothing).
C31_NoFetchAfterStop ==
  [][isClosed =>
       /\ ~(pc = "inner" /\ pc' \in {"getETHLogs", IterationSteps[1]})
       /\ ~(pc # "getETHLogs" /\ pc' = "getETHLogs")
       /\ checkPoint' # checkPoint =>
            /\ pc = "updateCheckPoint"
            /\ checkPoint'.lastIndexedBlock =
                 IF iterRange = NoRange THEN iterStart ELSE iterRange.end + 1]_vars

\* stopSync was called during an iteration that fetched a range, and the
\* checkpoint of that range is written.
C31_Witness ==
  /\ isClosed
  /\ isShuttingDown
  /\ pc = "index"
  /\ iterRange # NoRange
  /\ checkPoint.lastIndexedBlock = iterRange.end + 1

\* C32: while a log fetch is in flight, fails and is retried (the retries of
\* executeWithRetry within the call, then the error backoff and the next
\* pass of the inner loop), the stored checkpoint, the stored leaf and
\* unspent records and the engine's position do not change, and /health
\* answers the same.
C32_FailedFetchChangesNothing ==
  [][(/\ pc \in {"getETHLogs", "errorBackoff", "inner"}
      /\ pc' \in {"getETHLogs", "errorBackoff", "inner", "outer"}
      /\ iterRange = NoRange
      /\ iterRange' = NoRange)
     => /\ UNCHANGED <<checkPoint, leafs, unspents, startBlockNumber>>
        /\ health(checkPoint') = health(checkPoint)]_vars

\* A fetch has failed (the iteration fetched nothing although its range
\* is not empty) and the engine waits to retry it, with a checkpoint stored
\* by an earlier iteration.
C32_Witness ==
  /\ pc = "errorBackoff"
  /\ lastIter = "failed"
  /\ iterRange = NoRange
  /\ LET r == calculateBlockRange(startBlockNumber, latestBlockNumber, config)
     IN r.start <= r.end
  /\ checkPoint # NoCheckPoint
  /\ health(checkPoint).lastIndexedBlock = startBlockNumber

\* C33: every log fetch the engine issues ends at or below
\* latestBlockNumber - BLOCK_DIFFERENCE, latestBlockNumber being the height
\* initializeConnection last accepted, which is at most the chain's head: no
\* block within BLOCK_DIFFERENCE of the head is requested, and none is among
\* the blocks this run has fetched.
C33_FetchTrailsHead ==
  /\ Running => latestBlockNumber <= chainHead
  /\ pc = "getETHLogs" =>
       /\ blockRange.end <= latestBlockNumber - config.block_difference
       /\ \A b \in blockRange.start .. blockRange.end :
            b <= chainHead - config.block_difference
  /\ (Running /\ lastRange # NoRange) =>
       lastRange.end <= latestBlockNumber - config.block_difference

\* A fetch that spans more than one block and reaches the last block allowed
\* is in flight, BLOCK_DIFFERENCE being positive.
C33_Witness ==
  /\ pc = "getETHLogs"
  /\ config.block_difference > 0
  /\ blockRange.start < blockRange.end
  /\ blockRange.end = latestBlockNumber - config.block_difference

\* C34: no fetched range holds more than MAX_BLOCKS_PER_REQUEST blocks: a
\* fetch of start .. end has end - start + 1 <= config.batchSize.
C34_RangeWithinBatch ==
  pc = "getETHLogs" =>
    blockRange.end - blockRange.start + 1 <= config.batchSize

\* C35: every operation submitted through execute is eventually run and its
\* promise settles, whenever the calls of execute happen relative to the end
\* of the processing loop, when every delay ends and every operation
\* settles.
C35_SubmittedSettles ==
  \A k \in 1..MaxSubmits : (submitted >= k) ~> (k \in settled)

\* processQueue has taken an operation and is suspended in its loop.
LoopActive == queuePc \in {"rateDelay", "minDelay", "request"}

\* C36: operations submitted through execute run one at a time in the order
\* of submission: a processing loop exists only while the processing promise
\* is set (so execute starts no second one), the operation taken by the loop
\* is the oldest one whose run is not over, every operation submitted before
\* it has resolved or rejected, and the queue holds the later ones in the
\* order of submission; also after an operation has failed.
C36_OneAtATimeInOrder ==
  LET over == Cardinality(finished)
      taken == IF LoopActive THEN 1 ELSE 0
  IN /\ queuePc # "none" => processingPromise
     /\ isProcessing <=> LoopActive
     /\ finished = 1..over
     /\ settled \subseteq finished
     /\ LoopActive => request = over + 1
     /\ over + taken + Len(requestQueue) = submitted
     /\ \A j \in 1..Len(requestQueue) : requestQueue[j] = over + taken + j

\* The third operation runs after the first one failed in a way that ended
\* the loop and the second one was run by a new loop, a later one waiting.
C36_Witness ==
  /\ queuePc = "request"
  /\ request = 3
  /\ 1 \in finished \ settled
  /\ 2 \in settled
  /\ requestQueue # <<>>

\* C37: in every stored checkpoint lastIndexedBlock <= latestBlock, so the
\* difference GET /health reports is never negative, whatever
\* BLOCK_DIFFERENCE (0 included) is configured.
C37_LagNotNegative ==
  checkPoint # NoCheckPoint =>
    /\ checkPoint.lastIndexedBlock <= checkPoint.latestBlock
    /\ health(checkPoint).difference >= 0

\* The payload an unspent record carries.
Payload(u) == IF u.isEncrypted THEN u.encryptedUTXO ELSE u.UTXOs

\* C38: when index has returned on a store that was empty, every recognised
\* log of the batch has an unspent record of its own with that log's
\* transaction, block and payload, whatever its block number and also when
\* several recognised logs belong to one transaction; as many unspent
\* records are stored as leaf records.
C38_EveryLogHasUnspent ==
  (/\ pc = StepAfter("index")
   /\ leafs \cap StoredLeafs = {}
   /\ unspents \cap StoredUnspents = {})
  => LET rec == SelectSeq(logsData, Recognised)
     IN /\ \A i \in 1..Len(rec) :
             \E u \in unspents :
                /\ u.txid = rec[i].transactionHash
                /\ u.blockNumber = rec[i].blockNumber
                /\ Payload(u) = rec[i].data
        /\ Cardinality(unspents) = Cardinality(leafs)

\* seq begins with the elements of prefix, in order.
StartsWith(seq, prefix) ==
  /\ Len(prefix) <= Len(seq)
  /\ SubSeq(seq, 1, Len(prefix)) = prefix

\* C39: while the process runs, fetched logs stay in logsData until an index
\* call that includes them has succeeded: every step keeps the buffer and at
\* most appends to it, also the steps of a failed checkpoint write or a
\* failed index, except the step right after index has returned, which
\* empties it, every recognised log of the buffer (the logs kept from
\* earlier iterations included) then being stored as a leaf.
C39_LogsKeptUntilIndexed ==
  [][pc # "dead" =>
       \/ StartsWith(logsData', logsData)
       \/ /\ pc = StepAfter("index")
          /\ logsData' = <<>>
          /\ \A i \in 1..Len(logsData) :
               Recognised(logsData[i]) =>
                 \E d \in leafs :
                    LeafKey(d) = <<logsData[i].transactionHash,
                                   logsData[i].logIndex,
                                   logsData[i].blockNumber>>]_vars

\* index has succeeded on a buffer that holds, before the logs of the range
\* this iteration fetched, a log kept from an iteration that failed.
C39_Witness ==
  /\ pc = StepAfter("index")
  /\ iterRange # NoRange
  /\ \E i \in 1..Len(logsData) : logsData[i].blockNumber < iterRange.start
  /\ \E i \in 1..Len(logsData) : logsData[i].blockNumber >= iterRange.start

\* C40: after every decode or configureCacheSettings call the cache holds at
\* most maxCacheSize entries, for every positive maxCacheSize configured.
C40_CacheBounded == Len(cache) <= cacheSettings.maxCacheSize

\* A call has deleted a live entry to keep the cache within the configured
\* size, and the cache is full.
C40_Witness ==
  /\ evicted > 0
  /\ Len(cache) = cacheSettings.maxCacheSize
  /\ \A j \in 1..Len(cache) : ~cache[j].expired

====
